---- MODULE Spec2Model ----
(***************************************************************************)
(* Model of the Wan2.2 job gateway (src/entrypoint/app.py, s3_util.py,     *)
(* models.py): the single-flight admission gate (an asyncio.Lock acquired  *)
(* through asyncio.wait_for), the two request handlers preprocess_video    *)
(* and generate_video, the subprocess supervisor and the S3 transfer       *)
(* helpers.                                                                *)
(***************************************************************************)
EXTENDS Integers, Sequences, FiniteSets, TLC

(***************************************************************************)
(* Bounds of the model.                                                    *)
(***************************************************************************)
NumJobs == 2          \* concurrent requests
MaxLines == 1         \* lines the child writes before it exits
MaxSeqLen == 2        \* length of a line sequence given to the interpreter

(***************************************************************************)
(* Program constants.                                                      *)
(***************************************************************************)
LOCK_TIMEOUT == 1     \* app.py:26, in clock ticks

Jobs == 1..NumJobs
None == "None"

(***************************************************************************)
(* Output lines.  A line is a sequence of tokens.  "M" is the literal text *)
(* 'Process completed with return code:' (it ends in a colon), "Mt" is the *)
(* same text without its final colon, "BAD" is a byte sequence that is not *)
(* valid UTF-8; the other tokens are single characters.                    *)
(***************************************************************************)
Digits == <<"0", "1", "2", "3", "4", "5", "6", "7", "8", "9">>
DigitSet == {Digits[i] : i \in 1..10}
DigitVal(t) == (CHOOSE i \in 1..10 : Digits[i] = t) - 1
Whitespace == {" ", "\n"}

\* str(n) for the integers the model uses (|n| < 100)
FormatNat(n) == IF n < 10 THEN <<Digits[n + 1]>>
                ELSE <<Digits[(n \div 10) + 1], Digits[(n % 10) + 1]>>
FormatInt(n) == IF n < 0 THEN <<"-">> \o FormatNat(0 - n) ELSE FormatNat(n)

\* f"Process completed with return code: {return_code}\n"
SentinelLine(n) == <<"M", " ">> \o FormatInt(n) \o <<"\n">>

\* line.decode('utf-8') raises UnicodeDecodeError on invalid bytes
Decodable(line) == \A i \in 1..Len(line) : line[i] # "BAD"

\* "Process completed with return code:" in output
ContainsMarker(line) ==
    \E i \in 1..Len(line) :
        \/ line[i] = "M"
        \/ line[i] = "Mt" /\ i < Len(line) /\ line[i + 1] = ":"

\* output.split(":")[-1]
HasColon(t) == t \in {"M", ":"}
LastColon(line) ==
    IF \E i \in 1..Len(line) : HasColon(line[i])
    THEN CHOOSE i \in 1..Len(line) :
            HasColon(line[i]) /\ \A k \in (i + 1)..Len(line) : ~HasColon(line[k])
    ELSE 0
AfterLastColon(line) == SubSeq(line, LastColon(line) + 1, Len(line))

\* str.strip()
RECURSIVE LStrip(_)
LStrip(s) == IF s # <<>> /\ Head(s) \in Whitespace THEN LStrip(Tail(s)) ELSE s
RECURSIVE RStrip(_)
RStrip(s) == IF s # <<>> /\ s[Len(s)] \in Whitespace
             THEN RStrip(SubSeq(s, 1, Len(s) - 1)) ELSE s
Strip(s) == LStrip(RStrip(s))

\* int(s): an optional sign and at least one decimal digit, else ValueError
IsIntText(s) ==
    LET body == IF s # <<>> /\ Head(s) \in {"-", "+"} THEN Tail(s) ELSE s
    IN  body # <<>> /\ \A i \in 1..Len(body) : body[i] \in DigitSet
RECURSIVE NatValue(_)
NatValue(s) == IF s = <<>> THEN 0
               ELSE 10 * NatValue(SubSeq(s, 1, Len(s) - 1)) + DigitVal(s[Len(s)])
IntValue(s) == IF Head(s) = "-" THEN 0 - NatValue(Tail(s))
               ELSE IF Head(s) = "+" THEN NatValue(Tail(s))
               ELSE NatValue(s)

\* mutant of InterpretLine: a failure once recorded is kept
InterpretLineKeepsFailure(rc, line) ==
    IF rc # 0 THEN rc
    ELSE IF ContainsMarker(line)
    THEN LET txt == Strip(AfterLastColon(line))
         IN  IF IsIntText(txt) THEN IntValue(txt) ELSE 1
    ELSE rc

\* body of the `async for output in ...` loop: the new value of return_code
InterpretLine(rc, line) ==
    IF ContainsMarker(line)
    THEN LET txt == Strip(AfterLastColon(line))
         IN  IF IsIntText(txt) THEN IntValue(txt) ELSE 1
    ELSE rc

\* the whole loop over a line sequence, return_code starting at 0
RECURSIVE InterpretFrom(_, _)
InterpretFrom(rc, ls) ==
    IF ls = <<>> THEN rc ELSE InterpretFrom(InterpretLine(rc, Head(ls)), Tail(ls))
InterpretLines(ls) == InterpretFrom(0, ls)


(***************************************************************************)
(* State.                                                                  *)
(***************************************************************************)
VARIABLES
    locked,          \* asyncio.Lock._locked of _processing_lock
    waiters,         \* asyncio.Lock._waiters: the jobs whose future is queued
    fut,             \* state of each job's waiter future
    waited,          \* ticks each job has spent inside wait_for
    acquires,        \* acquire() calls of each job that returned True
    releases,        \* release() calls of each job
    pc,              \* position of each request handler
    kind,            \* endpoint of each request
    req,             \* body of each request
    dlres,           \* result of each download helper call
    temp_dir,        \* the handler's temp_dir variable
    fs,              \* local paths that exist
    child,           \* state of the job's child process
    exitcode,        \* exit code of the child once it has exited
    pipe,            \* lines written by the child and not yet read
    written,         \* number of lines the child has written
    return_code,     \* the handler's return_code variable
    uploaded_files,  \* the handler's uploaded_files list
    upres,           \* result of each upload_file_and_get_presigned_url call
    remote,          \* keys written to the object store
    exc,             \* exception leaving the handler's try block, if any
    status,          \* HTTP status of the answer, 0 while there is none
    detail,          \* detail of the answer
    interp,          \* the output-interpreting loop run on a given line sequence
    probe            \* a helper or a request model run on a given input

jobVars == <<locked, waiters, fut, waited, acquires, releases, pc, kind, req, dlres, temp_dir, fs, child,
             exitcode, pipe, written, return_code, uploaded_files, upres, remote,
             exc, status, detail>>
vars == <<jobVars, interp, probe>>

gateVars == <<locked, waiters, fut, waited, acquires, releases>>
procVars == <<child, exitcode, pipe, written>>
storeVars == <<uploaded_files, upres, remote>>
respVars == <<status, detail>>

Kinds == {"preprocess", "generate"}

\* exit codes a child may end with
ExitCodes == {0, 1, -9}

\* lines a child may write: plain text, text that looks like the sentinel,
\* and bytes that do not decode
ChildLines == { <<"x", "\n">>, SentinelLine(0), <<"M", " ", "x", "\n">>, <<"BAD", "\n">> }

(***************************************************************************)
(* Local paths.  root "ws" is the directory made by tempfile.mkdtemp(),    *)
(* root "dl" a directory /tmp/<uuid> made by a download helper.            *)
(***************************************************************************)
Path(r, j, rel) == [root |-> r, job |-> j, rel |-> rel]
Workspace(j) == Path("ws", j, <<>>)
\* temp_dir = None
NoDir == Path("none", 0, <<>>)
\* os.path.join(temp_dir, f"{unique_id}_process_results")
SavePath(j) == Path("ws", j, <<"process_results">>)
\* os.path.join(temp_dir, f"{unique_id}_output.mp4")
OutputFile(j) == Path("ws", j, <<"output.mp4">>)
DownloadDir(j, which) == Path("dl", j, <<which>>)
DownloadedFile(j, which) == Path("dl", j, <<which, "file">>)

\* files the preprocessing child may leave under the save path, as
\* (subdirectory, base name)
OutNames == { <<"", "a">>, <<"sub", "a">> }
\* os.path.relpath(local_file_path, local_save_path)
RelPath(n) == IF n[1] = "" THEN <<n[2]>> ELSE <<n[1], n[2]>>
SavedFile(j, n) == Path("ws", j, <<"process_results">> \o RelPath(n))
\* os.path.basename
Basename(p) == p.rel[Len(p.rel)]

\* mutant of Rmtree: only the directory itself is removed (os.rmdir)
RmtreeNotRecursive(files, j) == files \ {Path("ws", j, <<>>)}

\* shutil.rmtree(temp_dir)
Rmtree(files, j) == { p \in files : ~(p.root = "ws" /\ p.job = j) }

\* files os.walk(local_save_path) finds
WalkNames(j) == { n \in OutNames : SavedFile(j, n) \in fs }

(***************************************************************************)
(* Request bodies (models.py).  An Optional[bool] field is "true", "false" *)
(* or "null", an Optional[int] field is <<>> for None and <<n>> for n.     *)
(* The location fields are left out: what a location leads to is the       *)
(* outcome of its download.                                                *)
(***************************************************************************)
Flags == {"true", "false", "null"}
\* truth value of an Optional[bool] in `if self.flag`
Truthy(f) == f = "true"
\* `self.field is None`
IsNone(o) == o = <<>>

\* PreprocessRequest
PreprocessRequests ==
    [resolution_area : {<<48>>, <<48, 27>>, <<48, 27, 5>>},
     retarget_flag : Flags, use_flux : Flags, replace_flag : Flags,
     iterations : {<<>>, <<10>>}, k : {<<>>, <<2>>},
     w_len : {<<>>, <<64>>}, h_len : {<<>>, <<32>>}]

\* GenerateRequest
GenerateRequests ==
    [task : {"animate"}, refert_num : {1, 3},
     replace_flag : Flags, use_relighting_lora : Flags,
     nproc_per_node : {0, 1, 2}, nnodes : {1, 2},
     dit_fsdp : Flags, t5_fsdp : Flags, ulysses_size : {<<>>, <<2>>}]

RequestsOf(k) == IF k = "preprocess" THEN PreprocessRequests ELSE GenerateRequests

\* PreprocessRequest.check_mutually_exclusive_flags: the error it raises
CheckMutuallyExclusiveFlags(r) ==
    IF Truthy(r.replace_flag) /\ Truthy(r.use_flux) THEN "exclusive" ELSE None

\* mutant of CheckConditionalFields: h_len is not looked at
CheckConditionalFieldsForgetsHLen(r) ==
    IF Truthy(r.replace_flag) /\ IsNone(r.iterations) THEN "iterations"
    ELSE IF Truthy(r.replace_flag) /\ IsNone(r.k) THEN "k"
    ELSE IF Truthy(r.replace_flag) /\ IsNone(r.w_len) THEN "w_len"
    ELSE IF Truthy(r.use_flux) /\ ~Truthy(r.retarget_flag) THEN "retarget_flag"
    ELSE None

\* PreprocessRequest.check_conditional_fields: the error it raises
CheckConditionalFields(r) ==
    IF Truthy(r.replace_flag) /\ IsNone(r.iterations) THEN "iterations"
    ELSE IF Truthy(r.replace_flag) /\ IsNone(r.k) THEN "k"
    ELSE IF Truthy(r.replace_flag) /\ IsNone(r.w_len) THEN "w_len"
    ELSE IF Truthy(r.replace_flag) /\ IsNone(r.h_len) THEN "h_len"
    ELSE IF Truthy(r.use_flux) /\ ~Truthy(r.retarget_flag) THEN "retarget_flag"
    ELSE None

\* the validators of PreprocessRequest in the order of their definition
ValidatePreprocess(r) ==
    IF CheckMutuallyExclusiveFlags(r) # None
    THEN CheckMutuallyExclusiveFlags(r)
    ELSE CheckConditionalFields(r)

\* mutant of CheckConditionalGenerateFields: the multi-card fields are
\* required together, not each
CheckConditionalGenerateFieldsAnyOne(r) ==
    IF Truthy(r.replace_flag) /\ ~Truthy(r.use_relighting_lora)
    THEN "use_relighting_lora"
    ELSE IF /\ r.nproc_per_node > 1
            /\ (~Truthy(r.dit_fsdp) /\ ~Truthy(r.t5_fsdp) /\ IsNone(r.ulysses_size))
    THEN "multi_card"
    ELSE None

\* GenerateRequest.check_conditional_generate_fields: the error it raises
CheckConditionalGenerateFields(r) ==
    IF Truthy(r.replace_flag) /\ ~Truthy(r.use_relighting_lora)
    THEN "use_relighting_lora"
    ELSE IF /\ r.nproc_per_node > 1
            /\ (~Truthy(r.dit_fsdp) \/ ~Truthy(r.t5_fsdp) \/ IsNone(r.ulysses_size))
    THEN "multi_card"
    ELSE None

\* mutant of Ingress: the body reaches the handler as it came
IngressUnvalidated(k, r) == None

\* `request: PreprocessRequest` / `request: GenerateRequest` in the handler's
\* signature: the body is validated before the handler is called
Ingress(k, r) ==
    IF k = "preprocess" THEN ValidatePreprocess(r) ELSE CheckConditionalGenerateFields(r)

\* bodies the gateway is run on: per endpoint one that passes validation and
\* one that does not
DefaultPreprocess ==
    [resolution_area |-> <<48, 27>>, retarget_flag |-> "false", use_flux |-> "false",
     replace_flag |-> "false", iterations |-> <<>>, k |-> <<>>, w_len |-> <<>>,
     h_len |-> <<>>]
DefaultGenerate ==
    [task |-> "animate", refert_num |-> 1, replace_flag |-> "false",
     use_relighting_lora |-> "false", nproc_per_node |-> 1, nnodes |-> 1,
     dit_fsdp |-> "false", t5_fsdp |-> "false", ulysses_size |-> <<>>]
GatewayRequests(k) ==
    IF k = "preprocess"
    THEN {DefaultPreprocess, [DefaultPreprocess EXCEPT !.use_flux = "true"]}
    ELSE {DefaultGenerate, [DefaultGenerate EXCEPT !.replace_flag = "true"]}
NoRequest == [empty |-> TRUE]

\* the gateway before any request
InitJobs ==
    /\ locked = FALSE
    /\ waiters = <<>>
    /\ fut = [j \in Jobs |-> "none"]
    /\ waited = [j \in Jobs |-> 0]
    /\ acquires = [j \in Jobs |-> 0]
    /\ releases = [j \in Jobs |-> 0]
    /\ pc = [j \in Jobs |-> "idle"]
    /\ kind = [j \in Jobs |-> None]
    /\ req = [j \in Jobs |-> NoRequest]
    /\ dlres = [j \in Jobs |-> [w \in {} |-> None]]
    /\ temp_dir = [j \in Jobs |-> NoDir]
    /\ fs = {}
    /\ child = [j \in Jobs |-> "none"]
    /\ exitcode = [j \in Jobs |-> None]
    /\ pipe = [j \in Jobs |-> <<>>]
    /\ written = [j \in Jobs |-> 0]
    /\ return_code = [j \in Jobs |-> 0]
    /\ uploaded_files = [j \in Jobs |-> <<>>]
    /\ upres = [j \in Jobs |-> [n \in {} |-> None]]
    /\ remote = {}
    /\ exc = [j \in Jobs |-> None]
    /\ status = [j \in Jobs |-> 0]
    /\ detail = [j \in Jobs |-> None]

(***************************************************************************)
(* The admission gate: asyncio.wait_for(_processing_lock.acquire(),        *)
(* timeout=LOCK_TIMEOUT) and _processing_lock.release().                   *)
(***************************************************************************)
\* mutant of RemoveWaiter: the future stays queued
RemoveWaiterKeepsIt(ws, j) == ws

\* Lock.acquire: self._waiters.remove(fut)
RemoveWaiter(ws, j) == SelectSeq(ws, LAMBDA w : w # j)

\* Lock._wake_up_first: the head waiter's future gets its result unless it
\* is already done (has a result or is cancelled)
WakeUpFirst(ws, f) ==
    IF ws # <<>> /\ f[Head(ws)] = "pending"
    THEN [f EXCEPT ![Head(ws)] = "result"]
    ELSE f

\* mutant of FastPath: the lock's own state is not looked at
FastPathIgnoresLocked(l, ws, f) == \A i \in 1..Len(ws) : f[ws[i]] = "cancelled"

\* Lock.acquire takes the lock at once when it is free and no waiter is
\* queued whose future is not cancelled
FastPath(l, ws, f) == ~l /\ \A i \in 1..Len(ws) : f[ws[i]] = "cancelled"

\* a request arrives: a body that fails validation is answered 422 and the
\* handler is not called; else wait_for(_processing_lock.acquire(),
\* LOCK_TIMEOUT) up to its first suspension
Request(j, k, r) ==
    /\ pc[j] = "idle"
    /\ kind' = [kind EXCEPT ![j] = k]
    /\ req' = [req EXCEPT ![j] = r]
    /\ IF Ingress(k, r) # None
       THEN /\ pc' = [pc EXCEPT ![j] = "responded"]
            /\ exc' = [exc EXCEPT ![j] = "Validation"]
            /\ status' = [status EXCEPT ![j] = 422]
            /\ detail' = [detail EXCEPT ![j] = Ingress(k, r)]
            /\ UNCHANGED gateVars
       ELSE /\ IF FastPath(locked, waiters, fut)
               THEN /\ locked' = TRUE
                    /\ acquires' = [acquires EXCEPT ![j] = @ + 1]
                    /\ pc' = [pc EXCEPT ![j] = "admitted"]
                    /\ UNCHANGED <<waiters, fut, waited, releases>>
               ELSE /\ waiters' = Append(waiters, j)
                    /\ fut' = [fut EXCEPT ![j] = "pending"]
                    /\ waited' = [waited EXCEPT ![j] = 0]
                    /\ pc' = [pc EXCEPT ![j] = "waiting"]
                    /\ UNCHANGED <<locked, acquires, releases>>
            /\ UNCHANGED <<exc, respVars>>
    /\ UNCHANGED <<dlres, temp_dir, fs, procVars, return_code, storeVars>>
    /\ UNCHANGED <<interp, probe>>

\* one tick of the clock; a timer that is due fires before the next tick
Tick ==
    /\ \E j \in Jobs : pc[j] = "waiting"
    /\ \A j \in Jobs : pc[j] = "waiting" => waited[j] < LOCK_TIMEOUT
    /\ waited' = [j \in Jobs |-> IF pc[j] = "waiting" THEN waited[j] + 1 ELSE waited[j]]
    /\ UNCHANGED <<locked, waiters, fut, acquires, releases, pc, kind, req, dlres, temp_dir,
                   fs, procVars, return_code, storeVars, exc, respVars>>
    /\ UNCHANGED <<interp, probe>>

\* the waiter's future has its result and the task resumes: Lock.acquire
\* removes the future, sets _locked and returns True
AcquireResume(j) ==
    /\ pc[j] = "waiting"
    /\ fut[j] = "result"
    /\ waiters' = RemoveWaiter(waiters, j)
    /\ fut' = [fut EXCEPT ![j] = "none"]
    /\ locked' = TRUE
    /\ acquires' = [acquires EXCEPT ![j] = @ + 1]
    /\ pc' = [pc EXCEPT ![j] = "admitted"]
    /\ UNCHANGED <<waited, releases, kind, req, dlres, temp_dir, fs, procVars, return_code, storeVars,
                   exc, respVars>>
    /\ UNCHANGED <<interp, probe>>

\* the timeout of wait_for expires: the acquiring task is cancelled
TimeoutFire(j) ==
    /\ pc[j] = "waiting"
    /\ waited[j] = LOCK_TIMEOUT
    /\ fut' = [fut EXCEPT ![j] = IF fut[j] = "pending" THEN "cancelled" ELSE fut[j]]
    /\ pc' = [pc EXCEPT ![j] = "cancelled"]
    /\ UNCHANGED <<locked, waiters, waited, acquires, releases, kind, req, dlres, temp_dir,
                   fs, procVars, return_code, storeVars, exc, respVars>>
    /\ UNCHANGED <<interp, probe>>

\* mutant of Answer: a timed-out acquire is answered like any other failure
AnswerBusyAs500(e) ==
    IF e = None THEN [status |-> 200, detail |-> "completed successfully"]
    ELSE [status |-> 500, detail |-> e]

\* mutant of Answer: `except Exception` answers without the message of e
AnswerWithoutMessage(e) ==
    IF e = None THEN [status |-> 200, detail |-> "completed successfully"]
    ELSE IF e = "Busy" THEN [status |-> 429, detail |-> "System busy, please try again later"]
    ELSE [status |-> 500, detail |-> "Internal Server Error"]

\* the answer to a request whose handler ended with exception e (None: it
\* returned): HTTPException(429) after asyncio.TimeoutError,
\* HTTPException(500, str(e)) from `except Exception`, a plain 500 from the
\* server for an exception that leaves the finally block
Answer(e) ==
    IF e = None THEN [status |-> 200, detail |-> "completed successfully"]
    ELSE IF e = "Busy" THEN [status |-> 429, detail |-> "System busy, please try again later"]
    ELSE IF e = "Removal" THEN [status |-> 500, detail |-> "Internal Server Error"]
    ELSE [status |-> 500, detail |-> e]

\* the cancelled task resumes: Lock.acquire removes the future, hands a
\* wake-up on if the lock is free, and the handler answers 429
CancelResume(j) ==
    /\ pc[j] = "cancelled"
    /\ waiters' = RemoveWaiter(waiters, j)
    /\ fut' = IF ~locked
              THEN WakeUpFirst(RemoveWaiter(waiters, j), [fut EXCEPT ![j] = "none"])
              ELSE [fut EXCEPT ![j] = "none"]
    /\ pc' = [pc EXCEPT ![j] = "responded"]
    /\ exc' = [exc EXCEPT ![j] = "Busy"]
    /\ status' = [status EXCEPT ![j] = Answer("Busy").status]
    /\ detail' = [detail EXCEPT ![j] = Answer("Busy").detail]
    /\ UNCHANGED <<locked, waited, acquires, releases, kind, req, dlres, temp_dir, fs,
                   procVars, return_code, storeVars>>
    /\ UNCHANGED <<interp, probe>>

(***************************************************************************)
(* The handlers preprocess_video and generate_video, after admission.      *)
(***************************************************************************)
\* an exception raised inside the try block: `except Exception` turns it
\* into HTTPException(500, str(e)) and the finally block runs
Raise(j, e) ==
    /\ pc' = [pc EXCEPT ![j] = "finally"]
    /\ exc' = [exc EXCEPT ![j] = e]

\* temp_dir = tempfile.mkdtemp()
MkTemp(j, ok) ==
    /\ pc[j] = "admitted"
    /\ IF ok
       THEN /\ temp_dir' = [temp_dir EXCEPT ![j] = Workspace(j)]
            /\ fs' = fs \cup {Workspace(j)}
            /\ pc' = [pc EXCEPT ![j] = "dl1"]
            /\ UNCHANGED exc
       ELSE /\ Raise(j, "Unexpected")
            /\ UNCHANGED <<temp_dir, fs>>
    /\ UNCHANGED <<gateVars, kind, req, dlres, procVars, return_code, storeVars, respVars>>
    /\ UNCHANGED <<interp, probe>>

\* mutant of DownloadStep: the command is built once the video is there
DownloadStepSkipsRefer(j) ==
    IF kind[j] = "generate"
    THEN [which |-> "src_root", next |-> "build", err |-> "DownloadFolder"]
    ELSE [which |-> "video", next |-> "build", err |-> "DownloadVideo"]

\* which input the handler downloads at a position, where it goes next and
\* the failure it raises
DownloadStep(j) ==
    IF kind[j] = "generate"
    THEN [which |-> "src_root", next |-> "build", err |-> "DownloadFolder"]
    ELSE IF pc[j] = "dl1"
    THEN [which |-> "video", next |-> "dl2", err |-> "DownloadVideo"]
    ELSE [which |-> "refer", next |-> "build", err |-> "DownloadRefer"]

DownloadOutcomes == {"invalid", "failed", "partial", "ok"}

\* mutant of DownloadSucceeded: a folder of which some objects were fetched
\* counts as downloaded
DownloadSucceededIfAnyFetched(outcome) == outcome \in {"ok", "partial"}

\* the helper returned a path: a rejected location, a failed listing and a
\* failed fetch all make it return None
DownloadSucceeded(outcome) == outcome = "ok"

\* paths a download helper leaves on disk: nothing for a location it
\* rejects, else the directory /tmp/<uuid> and what was fetched into it
DownloadLeaves(j, which, outcome) ==
    IF outcome = "invalid" THEN {}
    ELSE IF outcome = "failed" THEN {DownloadDir(j, which)}
    ELSE {DownloadDir(j, which), DownloadedFile(j, which)}

\* download_s3_url_to_temp / download_s3_folder_to_temp and the handler's
\* `if not local_..._path: raise HTTPException(500, ...)`
Download(j, outcome) ==
    /\ pc[j] \in {"dl1", "dl2"}
    /\ outcome = "partial" => kind[j] = "generate"
    /\ LET d == DownloadStep(j)
       IN  /\ fs' = fs \cup DownloadLeaves(j, d.which, outcome)
           /\ dlres' = [dlres EXCEPT ![j] = (d.which :> outcome) @@ @]
           /\ IF DownloadSucceeded(outcome)
              THEN pc' = [pc EXCEPT ![j] = d.next] /\ UNCHANGED exc
              ELSE Raise(j, d.err)
    /\ UNCHANGED <<gateVars, kind, req, temp_dir, procVars, return_code, storeVars,
                   respVars>>
    /\ UNCHANGED <<interp, probe>>

\* os.makedirs(local_save_path), the command, return_code = 0 and
\* asyncio.create_subprocess_exec
Spawn(j, ok) ==
    /\ pc[j] = "build"
    /\ fs' = IF kind[j] = "preprocess" THEN fs \cup {SavePath(j)} ELSE fs
    /\ return_code' = [return_code EXCEPT ![j] = 0]
    /\ IF ok
       THEN /\ child' = [child EXCEPT ![j] = "running"]
            /\ pc' = [pc EXCEPT ![j] = "reading"]
            /\ UNCHANGED exc
       ELSE /\ Raise(j, "Unexpected")
            /\ UNCHANGED child
    /\ UNCHANGED <<gateVars, kind, req, dlres, temp_dir, exitcode, pipe, written, storeVars,
                   respVars>>
    /\ UNCHANGED <<interp, probe>>

\* the child writes a line to its stdout/stderr pipe
ChildWrite(j, line) ==
    /\ child[j] = "running"
    /\ pc[j] = "reading"
    /\ written[j] < MaxLines
    /\ pipe' = [pipe EXCEPT ![j] = Append(@, line)]
    /\ written' = [written EXCEPT ![j] = @ + 1]
    /\ UNCHANGED <<gateVars, pc, kind, req, dlres, temp_dir, fs, child, exitcode, return_code,
                   storeVars, exc, respVars>>
    /\ UNCHANGED <<interp, probe>>

\* files the child may leave in the workspace
ChildFiles(j) ==
    IF kind[j] = "preprocess"
    THEN IF SavePath(j) \in fs THEN {SavedFile(j, n) : n \in OutNames} ELSE {}
    ELSE IF Workspace(j) \in fs THEN {OutputFile(j)} ELSE {}

\* the child exits, leaving some of its output files
ChildExit(j, code, files) ==
    /\ child[j] = "running"
    /\ files \subseteq ChildFiles(j)
    /\ child' = [child EXCEPT ![j] = "exited"]
    /\ exitcode' = [exitcode EXCEPT ![j] = code]
    /\ fs' = fs \cup files
    /\ UNCHANGED <<gateVars, pc, kind, req, dlres, temp_dir, pipe, written, return_code,
                   storeVars, exc, respVars>>
    /\ UNCHANGED <<interp, probe>>

\* line = await process.stdout.readline(); yield line.decode('utf-8'); the
\* handler's loop body interprets the line
ReadLine(j) ==
    /\ pc[j] = "reading"
    /\ pipe[j] # <<>>
    /\ pipe' = [pipe EXCEPT ![j] = Tail(@)]
    /\ IF Decodable(Head(pipe[j]))
       THEN /\ return_code' = [return_code EXCEPT ![j] = InterpretLine(@, Head(pipe[j]))]
            /\ UNCHANGED <<pc, exc>>
       ELSE /\ Raise(j, "Unexpected")
            /\ UNCHANGED return_code
    /\ UNCHANGED <<gateVars, kind, req, dlres, temp_dir, fs, child, exitcode, written,
                   storeVars, respVars>>
    /\ UNCHANGED <<interp, probe>>

\* readline() returns b'' at end of file: break
ReadEOF(j) ==
    /\ pc[j] = "reading"
    /\ pipe[j] = <<>>
    /\ child[j] = "exited"
    /\ pc' = [pc EXCEPT ![j] = "wait"]
    /\ UNCHANGED <<gateVars, kind, req, dlres, temp_dir, fs, procVars, return_code, storeVars,
                   exc, respVars>>
    /\ UNCHANGED <<interp, probe>>

\* return_code = await process.wait(); yield the sentinel line; the
\* handler's loop body interprets it and the loop ends
WaitSentinel(j) ==
    /\ pc[j] = "wait"
    /\ return_code' = [return_code EXCEPT
                         ![j] = InterpretLine(@, SentinelLine(exitcode[j]))]
    /\ pc' = [pc EXCEPT ![j] = "check"]
    /\ UNCHANGED <<gateVars, kind, req, dlres, temp_dir, fs, procVars, storeVars, exc, respVars>>
    /\ UNCHANGED <<interp, probe>>

\* mutant of ScriptFailed: only positive codes count as failure
ScriptFailedIfPositive(rc) == rc > 0

\* if return_code != 0
ScriptFailed(rc) == rc # 0

\* if return_code != 0: raise HTTPException(500, "Script failed ...")
CheckReturnCode(j) ==
    /\ pc[j] = "check"
    /\ IF ScriptFailed(return_code[j])
       THEN Raise(j, "Script")
       ELSE pc' = [pc EXCEPT ![j] = "upload"] /\ UNCHANGED exc
    /\ UNCHANGED <<gateVars, kind, req, dlres, temp_dir, fs, procVars, return_code, storeVars,
                   respVars>>
    /\ UNCHANGED <<interp, probe>>

(***************************************************************************)
(* Uploads.                                                                *)
(***************************************************************************)
UploadOutcomes == {"ok", "upload_failed", "url_failed"}

\* outcomes upload_file_and_get_presigned_url can have: besides the three
\* above, an upload that raises something else than ClientError and a
\* failing os.remove
HelperOutcomes == UploadOutcomes \cup {"upload_raised", "remove_failed"}

\* unique_id = str(uuid.uuid4()) of the handlers
Uid(j) == <<"u1", "u2", "u3", "u4">>[j]

\* config.prefix_path.  A prefix is the sequence of its segments; an element
\* "/" is a slash beyond the separating ones, so that <<"cfg", "/">> is "cfg/"
ConfigPrefix == <<"cfg", "/">>

\* str.rstrip('/')
RECURSIVE RStripSlash(_)
RStripSlash(p) ==
    IF p # <<>> /\ p[Len(p)] = "/" THEN RStripSlash(SubSeq(p, 1, Len(p) - 1)) ELSE p

\* s3_upload_prefix = f"{prefix_path.rstrip('/')}/preprocess_result/{unique_id}"
\* and its generate_video counterpart
UploadPrefix(j) ==
    RStripSlash(ConfigPrefix)
      \o <<IF kind[j] = "preprocess" THEN "preprocess_result" ELSE "generate_video",
           Uid(j)>>

\* mutant of ObjectName: the prefix is used as given
ObjectNameNoStrip(prefix, path) ==
    [prefix |-> IF prefix # <<>> THEN prefix ELSE ConfigPrefix,
     name |-> Basename(path)]

\* object_name = f"{s3_object_prefix.rstrip('/')}/{filename}" if a prefix is
\* given, else f"{config.prefix_path.rstrip('/')}/{filename}"
ObjectName(prefix, path) ==
    [prefix |-> IF prefix # <<>> THEN RStripSlash(prefix) ELSE RStripSlash(ConfigPrefix),
     name |-> Basename(path)]

\* upload_file_and_get_presigned_url before its first statement
UpBegin(files, keys, path, prefix, outcome) ==
    [pc |-> "open", fs |-> files, remote |-> keys, path |-> path,
     key |-> ObjectName(prefix, path), outcome |-> outcome, url |-> <<>>]

\* mutant of UpStep: a failed upload removes the local file as well
UpStepRemovesOnFailure(u) ==
    IF u.pc = "open"
    THEN [u EXCEPT !.pc = IF u.path \in u.fs THEN "upload" ELSE "done"]
    ELSE IF u.pc = "upload"
    THEN IF u.outcome \in {"upload_failed", "upload_raised"}
         THEN [u EXCEPT !.fs = @ \ {u.path}, !.pc = "done"]
         ELSE [u EXCEPT !.remote = @ \cup {u.key}, !.pc = "remove"]
    ELSE IF u.pc = "remove"
    THEN IF u.outcome = "remove_failed" THEN [u EXCEPT !.pc = "done"]
         ELSE [u EXCEPT !.fs = @ \ {u.path}, !.pc = "mint"]
    ELSE IF u.outcome = "url_failed" THEN [u EXCEPT !.pc = "done"]
         ELSE [u EXCEPT !.url = <<u.key>>, !.pc = "done"]

\* mutant of UpStep: the result of upload_fileobj is not looked at
UpStepIgnoresUploadResult(u) ==
    IF u.pc = "open"
    THEN [u EXCEPT !.pc = IF u.path \in u.fs THEN "upload" ELSE "done"]
    ELSE IF u.pc = "upload"
    THEN IF u.outcome = "upload_raised" THEN [u EXCEPT !.pc = "done"]
         ELSE IF u.outcome = "upload_failed" THEN [u EXCEPT !.pc = "remove"]
         ELSE [u EXCEPT !.remote = @ \cup {u.key}, !.pc = "remove"]
    ELSE IF u.pc = "remove"
    THEN IF u.outcome = "remove_failed" THEN [u EXCEPT !.pc = "done"]
         ELSE [u EXCEPT !.fs = @ \ {u.path}, !.pc = "mint"]
    ELSE IF u.outcome = "url_failed" THEN [u EXCEPT !.pc = "done"]
         ELSE [u EXCEPT !.url = <<u.key>>, !.pc = "done"]

\* one statement of upload_file_and_get_presigned_url: open(file_path),
\* upload_fileobj, os.remove, create_presigned_url; every failure makes the
\* function return None (url <<>>)
UpStep(u) ==
    IF u.pc = "open"
    THEN [u EXCEPT !.pc = IF u.path \in u.fs THEN "upload" ELSE "done"]
    ELSE IF u.pc = "upload"
    THEN IF u.outcome \in {"upload_failed", "upload_raised"} THEN [u EXCEPT !.pc = "done"]
         ELSE [u EXCEPT !.remote = @ \cup {u.key}, !.pc = "remove"]
    ELSE IF u.pc = "remove"
    THEN IF u.outcome = "remove_failed" THEN [u EXCEPT !.pc = "done"]
         ELSE [u EXCEPT !.fs = @ \ {u.path}, !.pc = "mint"]
    ELSE IF u.outcome = "url_failed" THEN [u EXCEPT !.pc = "done"]
         ELSE [u EXCEPT !.url = <<u.key>>, !.pc = "done"]

RECURSIVE UpRun(_)
UpRun(u) == IF u.pc = "done" THEN u ELSE UpRun(UpStep(u))

\* upload_file_and_get_presigned_url: the local paths and remote keys it
\* leaves and the URL it returns, <<>> standing for None
UploadAndPublish(files, keys, path, prefix, outcome) ==
    LET u == UpRun(UpBegin(files, keys, path, prefix, outcome))
    IN  [fs |-> u.fs, remote |-> u.remote, url |-> u.url]

\* OutputFile(file=f"preprocess_result/{unique_id}/{s3_key_suffix}", url=...)
PreprocessEntry(j, n, url) ==
    [file |-> [folder |-> "preprocess_result", job |-> j, rel |-> RelPath(n)],
     url |-> url]
\* OutputFile(file=os.path.basename(local_output_file), url=...)
GenerateEntry(j, url) ==
    [file |-> [folder |-> "", job |-> j, rel |-> <<Basename(OutputFile(j))>>],
     url |-> url]

\* mutant of ManifestAfter: the first entry is appended also without a URL
ManifestAfterFirstAlways(list, entry) ==
    IF entry.url # <<>> \/ list = <<>> THEN Append(list, entry) ELSE list

\* mutant of ManifestAfter: the entry is appended whatever the URL
ManifestAfterAlways(list, entry) == Append(list, entry)

\* mutant of OutputExists: the workspace is looked for, not the file
OutputExistsChecksDir(files, j) == Path("ws", j, <<>>) \in files

\* if presigned_url: uploaded_files.append(OutputFile(...))
ManifestAfter(list, entry) == IF entry.url # <<>> THEN Append(list, entry) ELSE list

\* if os.path.exists(local_output_file)
OutputExists(files, j) == OutputFile(j) \in files

\* files os.walk has still to yield; a directory's own files come before
\* those of its subdirectories
ToUpload(j) ==
    LET rest == WalkNames(j) \ DOMAIN upres[j]
    IN  { n \in rest : n[1] # "" => \A m \in rest : m[1] # "" }

\* one iteration of the upload loop of preprocess_video
UploadFile(j, n, outcome) ==
    /\ pc[j] = "upload"
    /\ kind[j] = "preprocess"
    /\ n \in ToUpload(j)
    /\ LET r == UploadAndPublish(fs, remote, SavedFile(j, n), UploadPrefix(j), outcome)
       IN  /\ fs' = r.fs
           /\ remote' = r.remote
           /\ uploaded_files' =
                 [uploaded_files EXCEPT
                    ![j] = ManifestAfter(@, PreprocessEntry(j, n, r.url))]
           /\ upres' = [upres EXCEPT ![j] = (n :> outcome) @@ @]
    /\ UNCHANGED <<gateVars, pc, kind, req, dlres, temp_dir, procVars, return_code, exc,
                   respVars>>
    /\ UNCHANGED <<interp, probe>>

\* the upload loop ends: return PreprocessResponse(...)
UploadDone(j) ==
    /\ pc[j] = "upload"
    /\ kind[j] = "preprocess"
    /\ WalkNames(j) \ DOMAIN upres[j] = {}
    /\ pc' = [pc EXCEPT ![j] = "finally"]
    /\ UNCHANGED <<gateVars, kind, req, dlres, temp_dir, fs, procVars, return_code, storeVars,
                   exc, respVars>>
    /\ UNCHANGED <<interp, probe>>

\* generate_video: upload the single output file if it exists and return
\* GenerateResponse(...), else raise HTTPException(500, "... not found")
UploadOutput(j, outcome) ==
    /\ pc[j] = "upload"
    /\ kind[j] = "generate"
    /\ IF OutputExists(fs, j)
       THEN LET r == UploadAndPublish(fs, remote, OutputFile(j), UploadPrefix(j), outcome)
            IN  /\ fs' = r.fs
                /\ remote' = r.remote
                /\ uploaded_files' =
                      [uploaded_files EXCEPT
                         ![j] = ManifestAfter(@, GenerateEntry(j, r.url))]
                /\ upres' = [upres EXCEPT ![j] = (<<"", "output.mp4">> :> outcome) @@ @]
                /\ pc' = [pc EXCEPT ![j] = "finally"]
                /\ UNCHANGED exc
       ELSE /\ outcome = "ok"
            /\ Raise(j, "MissingOutput")
            /\ UNCHANGED <<fs, storeVars>>
    /\ UNCHANGED <<gateVars, kind, req, dlres, temp_dir, procVars, return_code, respVars>>
    /\ UNCHANGED <<interp, probe>>

(***************************************************************************)
(* The finally block.                                                      *)
(***************************************************************************)
\* if temp_dir and os.path.exists(temp_dir): shutil.rmtree(temp_dir).  An
\* exception of rmtree leaves the finally block at once, replaces the one in
\* flight and is answered by the server with a plain 500.
CleanupRmtree(j, ok) ==
    /\ pc[j] = "finally"
    /\ IF temp_dir[j] # NoDir /\ temp_dir[j] \in fs
       THEN IF ok
            THEN /\ fs' = Rmtree(fs, j)
                 /\ pc' = [pc EXCEPT ![j] = "release"]
                 /\ UNCHANGED <<exc, respVars>>
            ELSE /\ pc' = [pc EXCEPT ![j] = "responded"]
                 /\ exc' = [exc EXCEPT ![j] = "Removal"]
                 /\ status' = [status EXCEPT ![j] = Answer("Removal").status]
                 /\ detail' = [detail EXCEPT ![j] = Answer("Removal").detail]
                 /\ UNCHANGED fs
       ELSE /\ ok
            /\ pc' = [pc EXCEPT ![j] = "release"]
            /\ UNCHANGED <<fs, exc, respVars>>
    /\ UNCHANGED <<gateVars, kind, req, dlres, temp_dir, procVars, return_code, storeVars>>
    /\ UNCHANGED <<interp, probe>>

\* if _processing_lock.locked(): _processing_lock.release(); then the
\* handler's return value or HTTPException(500, str(e)) is answered
ReleaseLock(j) ==
    /\ pc[j] = "release"
    /\ IF locked
       THEN /\ locked' = FALSE
            /\ fut' = WakeUpFirst(waiters, fut)
            /\ releases' = [releases EXCEPT ![j] = @ + 1]
       ELSE UNCHANGED <<locked, fut, releases>>
    /\ pc' = [pc EXCEPT ![j] = "responded"]
    /\ status' = [status EXCEPT ![j] = Answer(exc[j]).status]
    /\ detail' = [detail EXCEPT ![j] = Answer(exc[j]).detail]
    /\ UNCHANGED <<waiters, waited, acquires, kind, req, dlres, temp_dir, fs, procVars,
                   return_code, storeVars, exc>>
    /\ UNCHANGED <<interp, probe>>

(***************************************************************************)
(* The gateway.                                                            *)
(***************************************************************************)
NoProbe == [op |-> None]
NoInterp == [lines |-> <<>>, pos |-> 0, return_code |-> 0, verdict |-> None]

Init == InitJobs /\ interp = NoInterp /\ probe = NoProbe

Next ==
    \/ \E j \in Jobs, k \in Kinds : \E r \in GatewayRequests(k) : Request(j, k, r)
    \/ Tick
    \/ \E j \in Jobs : AcquireResume(j)
    \/ \E j \in Jobs : TimeoutFire(j)
    \/ \E j \in Jobs : CancelResume(j)
    \/ \E j \in Jobs, ok \in BOOLEAN : MkTemp(j, ok)
    \/ \E j \in Jobs, o \in DownloadOutcomes : Download(j, o)
    \/ \E j \in Jobs, ok \in BOOLEAN : Spawn(j, ok)
    \/ \E j \in Jobs, l \in ChildLines : ChildWrite(j, l)
    \/ \E j \in Jobs, c \in ExitCodes :
          \E fl \in SUBSET ChildFiles(j) : ChildExit(j, c, fl)
    \/ \E j \in Jobs : ReadLine(j)
    \/ \E j \in Jobs : ReadEOF(j)
    \/ \E j \in Jobs : WaitSentinel(j)
    \/ \E j \in Jobs : CheckReturnCode(j)
    \/ \E j \in Jobs, n \in OutNames, o \in UploadOutcomes : UploadFile(j, n, o)
    \/ \E j \in Jobs : UploadDone(j)
    \/ \E j \in Jobs, o \in UploadOutcomes : UploadOutput(j, o)
    \/ \E j \in Jobs, ok \in BOOLEAN : CleanupRmtree(j, ok)
    \/ \E j \in Jobs : ReleaseLock(j)

Spec == Init /\ [][Next]_vars

\* the steps the event loop takes for job j once they are enabled: the
\* resumption of its task at every await, the exit of its child and the
\* return of every call of the store; what the child writes is left to it
JobStep(j) ==
    \/ AcquireResume(j)
    \/ TimeoutFire(j)
    \/ CancelResume(j)
    \/ \E ok \in BOOLEAN : MkTemp(j, ok)
    \/ \E o \in DownloadOutcomes : Download(j, o)
    \/ \E ok \in BOOLEAN : Spawn(j, ok)
    \/ \E c \in ExitCodes : \E fl \in SUBSET ChildFiles(j) : ChildExit(j, c, fl)
    \/ ReadLine(j)
    \/ ReadEOF(j)
    \/ WaitSentinel(j)
    \/ CheckReturnCode(j)
    \/ \E n \in OutNames, o \in UploadOutcomes : UploadFile(j, n, o)
    \/ UploadDone(j)
    \/ \E o \in UploadOutcomes : UploadOutput(j, o)
    \/ \E ok \in BOOLEAN : CleanupRmtree(j, ok)
    \/ ReleaseLock(j)

\* the gateway under a fair event loop, with children that terminate and
\* store calls that return
SpecFair ==
    /\ Init
    /\ [][Next]_vars
    /\ WF_vars(Tick)
    /\ \A j \in Jobs : WF_vars(JobStep(j))

(***************************************************************************)
(* The output-interpreting loop of the handlers (app.py 173-185) run on a  *)
(* given sequence of lines.                                                *)
(***************************************************************************)
InterpLineSet ==
    { <<"x", "\n">>, SentinelLine(0), SentinelLine(1), SentinelLine(-9),
      <<"Mt">>, <<"M">>, <<"M", " ", "x", "\n">> }

LineSeqs(n) == UNION { [1..k -> InterpLineSet] : k \in 0..n }

InitInterp ==
    /\ InitJobs
    /\ interp \in { [lines |-> ls, pos |-> 0, return_code |-> 0, verdict |-> None] :
                    ls \in LineSeqs(MaxSeqLen) }
    /\ probe = NoProbe

\* one iteration of `async for output in ...`
InterpStep ==
    /\ interp.verdict = None
    /\ interp.pos < Len(interp.lines)
    /\ interp' = [interp EXCEPT
                    !.pos = @ + 1,
                    !.return_code = InterpretLine(@, interp.lines[interp.pos + 1])]
    /\ UNCHANGED <<jobVars, probe>>

\* after the loop: if return_code != 0: raise HTTPException(500, ...)
InterpCheck ==
    /\ interp.verdict = None
    /\ interp.pos = Len(interp.lines)
    /\ interp' = [interp EXCEPT
                    !.verdict = IF ScriptFailed(interp.return_code) THEN "Script" ELSE "upload"]
    /\ UNCHANGED <<jobVars, probe>>

NextInterp ==
    \/ InterpStep
    \/ InterpCheck

SpecInterp == InitInterp /\ [][NextInterp]_vars

(***************************************************************************)
(* upload_file_and_get_presigned_url (s3_util.py 33-68) run statement by   *)
(* statement on a given file, prefix and outcome.                          *)
(***************************************************************************)
UploadPaths ==
    { Path("ws", 1, <<"process_results", "a">>),
      Path("ws", 1, <<"process_results", "sub", "a">>),
      Path("ws", 1, <<"output.mp4">>) }
UploadPrefixes == { <<>>, <<"p">>, <<"p", "/">>, <<"p", "/", "/">>, <<"p", "q">>, <<"/">> }

InitUpload ==
    /\ InitJobs
    /\ interp = NoInterp
    /\ probe \in { [op |-> "upload", prefix |-> pfx, there |-> there,
                    u |-> UpBegin(IF there THEN {path} ELSE {}, {}, path, pfx, o)] :
                   path \in UploadPaths, there \in BOOLEAN,
                   pfx \in UploadPrefixes, o \in HelperOutcomes }

UploadStep ==
    /\ probe.u.pc # "done"
    /\ probe' = [probe EXCEPT !.u = UpStep(@)]
    /\ UNCHANGED <<jobVars, interp>>

NextUpload == UploadStep

SpecUpload == InitUpload /\ [][NextUpload]_vars

(***************************************************************************)
(* Validation and command construction on every request body.  A command   *)
(* is a sequence of arguments, an argument a sequence of tokens; paths and  *)
(* the interpreter are single tokens.                                      *)
(***************************************************************************)
\* a list of literal arguments
Words(ws) == [i \in 1..Len(ws) |-> <<ws[i]>>]
\* str() of an Optional[int]
StrOpt(o) == IF o = <<>> THEN <<"None">> ELSE FormatInt(o[1])

NoCommand == [error |-> "unbuilt", argv |-> <<>>]

\* mutant of PreprocessCommand: --retarget_flag follows the body's
\* retarget_flag
PreprocessCommandRetargetAsAsked(r) ==
    IF Len(r.resolution_area) < 2
    THEN [error |-> "IndexError", argv |-> <<>>]
    ELSE [error |-> None,
          argv |->
            Words(<<"python", "preprocess_data.py", "--ckpt_path", "ckpt_path",
                    "--video_path", "local_video_path", "--refer_path",
                    "local_refer_path", "--save_path", "local_save_path",
                    "--resolution_area">>)
            \o <<FormatInt(r.resolution_area[1]), FormatInt(r.resolution_area[2])>>
            \o (IF Truthy(r.replace_flag)
                THEN <<<<"--iterations">>, StrOpt(r.iterations), <<"--k">>, StrOpt(r.k),
                       <<"--w_len">>, StrOpt(r.w_len), <<"--h_len">>, StrOpt(r.h_len),
                       <<"--replace_flag">>>>
                ELSE IF Truthy(r.use_flux)
                THEN Words(<<"--use_flux">>)
                ELSE <<>>)
            \o (IF Truthy(r.retarget_flag) THEN Words(<<"--retarget_flag">>) ELSE <<>>)]

\* the command of preprocess_video; resolution_area[1] of a list with fewer
\* than two elements raises IndexError
PreprocessCommand(r) ==
    IF Len(r.resolution_area) < 2
    THEN [error |-> "IndexError", argv |-> <<>>]
    ELSE [error |-> None,
          argv |->
            Words(<<"python", "preprocess_data.py", "--ckpt_path", "ckpt_path",
                    "--video_path", "local_video_path", "--refer_path",
                    "local_refer_path", "--save_path", "local_save_path",
                    "--resolution_area">>)
            \o <<FormatInt(r.resolution_area[1]), FormatInt(r.resolution_area[2])>>
            \o (IF Truthy(r.replace_flag)
                THEN <<<<"--iterations">>, StrOpt(r.iterations), <<"--k">>, StrOpt(r.k),
                       <<"--w_len">>, StrOpt(r.w_len), <<"--h_len">>, StrOpt(r.h_len),
                       <<"--replace_flag">>>>
                ELSE IF Truthy(r.use_flux)
                THEN Words(<<"--retarget_flag", "--use_flux">>)
                ELSE <<>>)]

\* base_command of generate_video
BaseCommand(r) ==
    Words(<<"python", "generate.py", "--task", r.task, "--ckpt_dir", "ckpt_dir",
            "--src_root_path", "local_src_root_path", "--refert_num">>)
    \o <<FormatInt(r.refert_num)>>
    \o Words(<<"--save_file", "local_output_file">>)
    \o (IF Truthy(r.replace_flag)
        THEN Words(<<"--replace_flag", "--use_relighting_lora">>)
        ELSE <<>>)

\* the sharding flags generate_video appends in the multi-process branch
ShardingFlags(r) ==
    (IF Truthy(r.dit_fsdp) THEN Words(<<"--dit_fsdp">>) ELSE <<>>)
    \o (IF Truthy(r.t5_fsdp) THEN Words(<<"--t5_fsdp">>) ELSE <<>>)
    \o (IF ~IsNone(r.ulysses_size)
        THEN <<<<"--ulysses_size">>, StrOpt(r.ulysses_size)>>
        ELSE <<>>)

\* mutant of GenerateCommand: the sharding flags are appended in both branches
GenerateCommandAlwaysSharded(r) ==
    [error |-> None,
     argv |->
       IF r.nproc_per_node > 1
       THEN Words(<<"python", "-m", "torch.distributed.run", "--nnodes">>)
            \o <<FormatInt(r.nnodes)>> \o Words(<<"--nproc_per_node">>)
            \o <<FormatInt(r.nproc_per_node)>>
            \o Tail(BaseCommand(r)) \o ShardingFlags(r)
       ELSE BaseCommand(r) \o ShardingFlags(r)]

\* the command of generate_video
GenerateCommand(r) ==
    [error |-> None,
     argv |->
       IF r.nproc_per_node > 1
       THEN Words(<<"python", "-m", "torch.distributed.run", "--nnodes">>)
            \o <<FormatInt(r.nnodes)>> \o Words(<<"--nproc_per_node">>)
            \o <<FormatInt(r.nproc_per_node)>>
            \o Tail(BaseCommand(r)) \o ShardingFlags(r)
       ELSE BaseCommand(r)]

InitRequest ==
    /\ InitJobs
    /\ interp = NoInterp
    /\ probe \in UNION { { [op |-> "request", kind |-> k, body |-> r,
                            verdict |-> "pending", command |-> NoCommand] :
                           r \in RequestsOf(k) } : k \in Kinds }

\* the body is validated at ingress
ValidateRequest ==
    /\ probe.verdict = "pending"
    /\ probe' = [probe EXCEPT !.verdict = Ingress(probe.kind, probe.body)]
    /\ UNCHANGED <<jobVars, interp>>

\* preprocess_video, called with a body that passed validation, builds its command
BuildPreprocess ==
    /\ probe.kind = "preprocess"
    /\ probe.verdict = None
    /\ probe.command = NoCommand
    /\ probe' = [probe EXCEPT !.command = PreprocessCommand(probe.body)]
    /\ UNCHANGED <<jobVars, interp>>

\* generate_video, called with a body that passed validation, builds its command
BuildGenerate ==
    /\ probe.kind = "generate"
    /\ probe.verdict = None
    /\ probe.command = NoCommand
    /\ probe' = [probe EXCEPT !.command = GenerateCommand(probe.body)]
    /\ UNCHANGED <<jobVars, interp>>

NextRequest ==
    \/ ValidateRequest
    \/ BuildPreprocess
    \/ BuildGenerate

SpecRequest == InitRequest /\ [][NextRequest]_vars

(***************************************************************************)
(* download_s3_folder_to_temp (s3_util.py 142-207) on a given store, from  *)
(* the parsed prefix on.  A key is a sequence of tokens, "/" the           *)
(* separator, "." and ".." the dot names, any other token a piece of a     *)
(* name; a local path is the sequence of its segments.                     *)
(***************************************************************************)
MaxObjects == 4       \* objects in the store

\* str.split('/')
RECURSIVE Split(_)
Split(s) ==
    IF s = <<>> THEN << <<>> >>
    ELSE LET rest == Split(Tail(s))
         IN  IF Head(s) = "/" THEN << <<>> >> \o rest
             ELSE << <<Head(s)>> \o Head(rest) >> \o Tail(rest)

\* os.path.normpath on segments: empty and "." segments go, ".." takes the
\* segment before it
RECURSIVE Norm(_, _)
Norm(acc, segs) ==
    IF segs = <<>> THEN acc
    ELSE LET h == Head(segs)
         IN  Norm(IF h \in { <<>>, <<".">> } THEN acc
                  ELSE IF h = <<"..">>
                  THEN (IF acc = <<>> THEN acc ELSE SubSeq(acc, 1, Len(acc) - 1))
                  ELSE Append(acc, h),
                  Tail(segs))

\* os.getcwd() and os.path.abspath of a relative path
Cwd == << <<"cwd">> >>
AbsPath(x) == Norm(<<>>, Cwd \o Split(x))

\* length of the common prefix of two segment lists
RECURSIVE CommonLen(_, _)
CommonLen(a, b) ==
    IF a # <<>> /\ b # <<>> /\ Head(a) = Head(b) THEN 1 + CommonLen(Tail(a), Tail(b)) ELSE 0

\* os.path.relpath(path, start)
OsRelpath(path, start) ==
    LET pl == AbsPath(path)
        sl == AbsPath(start)
        i == CommonLen(pl, sl)
        rel == [n \in 1..(Len(sl) - i) |-> <<"..">>] \o SubSeq(pl, i + 1, Len(pl))
    IN  IF rel = <<>> THEN << <<".">> >> ELSE rel

\* local_folder_path = os.path.join("/tmp", temp_uuid)
LocalFolder == << <<"tmp">>, <<"uuid">> >>
\* the file os.path.join(local_folder_path, relative_path) names
LocalFilePath(rel) == Norm(<<>>, LocalFolder \o rel)
\* os.path.dirname
Dirname(path) == SubSeq(path, 1, Len(path) - 1)
\* a path and the directories above it
UpTo(path) == { SubSeq(path, 1, n) : n \in 1..Len(path) }

StartsWith(k, pre) == Len(k) >= Len(pre) /\ SubSeq(k, 1, Len(pre)) = pre

\* mutant of ListPrefix: the prefix is listed as given
ListPrefixAsGiven(pre) == pre

\* if not prefix.endswith('/'): prefix += '/'
ListPrefix(pre) == IF pre[Len(pre)] # "/" THEN Append(pre, "/") ELSE pre

\* the keys list_objects_v2 returns for Prefix=pre
Listing(store, pre) == { k \in store : StartsWith(k, pre) }

\* object_key.endswith('/')
IsMarker(k) == k[Len(k)] = "/"

\* keys the store may hold: objects below p/, directory markers, objects
\* outside p/, and keys below p/ whose relative paths do not form a tree
StoreKeys ==
    { <<"p", "/", "a">>, <<"p", "/", "s", "/", "a">>,
      <<"p", "/">>, <<"p", "/", "s", "/">>,
      <<"p", "q", "/", "a">>, <<"q", "/", "a">>,
      <<"p", "/", "/", "a">>, <<"p", "/", "a", "/", "b">>,
      <<"p", "/", "..", "/", "a">> }
Stores == { st \in SUBSET StoreKeys : Cardinality(st) <= MaxObjects }

InitFolder ==
    /\ InitJobs
    /\ interp = NoInterp
    /\ probe \in { [op |-> "folder", store |-> st, given |-> pre, prefix |-> pre,
                    pc |-> "start", todo |-> {}, files |-> {}, dirs |-> {},
                    result |-> "pending"] :
                   st \in Stores, pre \in { <<"p">>, <<"p", "/">> } }

\* the prefix is normalised, /tmp/<uuid> made and the prefix listed
FolderBegin ==
    /\ probe.pc = "start"
    /\ probe' = [probe EXCEPT
                   !.prefix = ListPrefix(@),
                   !.dirs = UpTo(LocalFolder),
                   !.todo = Listing(probe.store, ListPrefix(probe.prefix)),
                   !.pc = "loop"]
    /\ UNCHANGED <<jobVars, interp>>

\* one iteration of the loop over the listed objects, here in any order: a
\* marker is skipped; else os.makedirs of the parent raises if a file is in
\* its way, download_file raises if the target is a directory, and either
\* exception makes the function return None
FolderFetch(k) ==
    /\ probe.pc = "loop"
    /\ k \in probe.todo
    /\ LET target == LocalFilePath(OsRelpath(k, probe.prefix))
           parents == UpTo(Dirname(target))
       IN  probe' =
             IF IsMarker(k)
             THEN [probe EXCEPT !.todo = @ \ {k}]
             ELSE IF parents \cap probe.files # {}
             THEN [probe EXCEPT !.pc = "done", !.result = None]
             ELSE IF target \in probe.dirs
             THEN [probe EXCEPT !.dirs = @ \cup parents, !.pc = "done", !.result = None]
             ELSE [probe EXCEPT !.dirs = @ \cup parents,
                                !.files = @ \cup {target},
                                !.todo = @ \ {k}]
    /\ UNCHANGED <<jobVars, interp>>

\* return local_folder_path
FolderReturn ==
    /\ probe.pc = "loop"
    /\ probe.todo = {}
    /\ probe' = [probe EXCEPT !.pc = "done", !.result = "local_folder_path"]
    /\ UNCHANGED <<jobVars, interp>>

NextFolder ==
    \/ FolderBegin
    \/ \E k \in StoreKeys : FolderFetch(k)
    \/ FolderReturn

SpecFolder == InitFolder /\ [][NextFolder]_vars

\* ---------------------------------------------------------------------------
\* Location parsing of download_s3_url_to_temp and download_s3_folder_to_temp.
\* A URL is a sequence of tokens: the delimiters ":", "/", "?", "#", "." and
\* words.

\* str.lower() on the scheme, as urlsplit applies it
Lower(t) == IF t = "S3" THEN "s3" ELSE IF t = "HTTPS" THEN "https" ELSE t

\* position of the first token of s that is in ds, 0 if there is none
FirstOf(s, ds) ==
    IF \E i \in 1..Len(s) : s[i] \in ds
    THEN CHOOSE i \in 1..Len(s) : s[i] \in ds /\ \A k \in 1..(i - 1) : s[k] \notin ds
    ELSE 0

\* urlsplit takes url[:i] as the scheme when i = url.find(':') > 0, url[0]
\* is a letter and url[:i] holds scheme characters only
HasScheme(url) ==
    LET i == FirstOf(url, {":"})
    IN  /\ i > 1
        /\ url[1] # "."
        /\ \A k \in 1..(i - 1) : url[k] \notin {"/", "?", "#"}

UrlScheme(url) ==
    IF HasScheme(url)
    THEN [k \in 1..(FirstOf(url, {":"}) - 1) |-> Lower(url[k])]
    ELSE <<>>

AfterScheme(url) ==
    IF HasScheme(url) THEN SubSeq(url, FirstOf(url, {":"}) + 1, Len(url)) ELSE url

\* if url[:2] == '//': netloc runs to the first of "/", "?", "#"
HasNetloc(rest) == Len(rest) >= 2 /\ rest[1] = "/" /\ rest[2] = "/"

NetlocEnd(rest) ==
    LET body == SubSeq(rest, 3, Len(rest))
        i == FirstOf(body, {"/", "?", "#"})
    IN  IF i = 0 THEN Len(rest) ELSE i + 1

UrlNetloc(url) ==
    LET rest == AfterScheme(url)
    IN  IF HasNetloc(rest) THEN SubSeq(rest, 3, NetlocEnd(rest)) ELSE <<>>

\* what is left once the fragment and the query are split off
UrlPath(url) ==
    LET rest == AfterScheme(url)
        tail == IF HasNetloc(rest) THEN SubSeq(rest, NetlocEnd(rest) + 1, Len(rest))
                ELSE rest
        i == FirstOf(tail, {"?", "#"})
    IN  IF i = 0 THEN tail ELSE SubSeq(tail, 1, i - 1)

\* parsed_url.path.lstrip('/')
RECURSIVE LStripSlash(_)
LStripSlash(p) == IF p # <<>> /\ Head(p) = "/" THEN LStripSlash(Tail(p)) ELSE p

\* mutant of HttpsBucket: the whole host is taken as the bucket
HttpsBucketWholeHost(netloc) == netloc

\* parsed_url.netloc.split('.')[0]
HttpsBucket(netloc) ==
    LET i == FirstOf(netloc, {"."})
    IN  IF i = 0 THEN netloc ELSE SubSeq(netloc, 1, i - 1)

\* bucket and key of a URL; ok is false where the helper returns None: a
\* scheme other than s3 and https, or an empty bucket or key
ParseLocation(url) ==
    LET scheme == UrlScheme(url)
        key == LStripSlash(UrlPath(url))
    IN  IF scheme = <<"s3">>
        THEN [ok |-> UrlNetloc(url) # <<>> /\ key # <<>>,
              bucket |-> UrlNetloc(url), key |-> key]
        ELSE IF scheme = <<"https">>
        THEN [ok |-> HttpsBucket(UrlNetloc(url)) # <<>> /\ key # <<>>,
              bucket |-> HttpsBucket(UrlNetloc(url)), key |-> key]
        ELSE [ok |-> FALSE, bucket |-> <<>>, key |-> <<>>]

\* the locations tried: each is written from its parts
LocSchemes == { <<>>, <<"s3">>, <<"S3">>, <<"https">>, <<"http">>, <<"ftp">> }
LocHosts == { <<>>, <<"B">>, <<"B", ".", "h">>, <<".", "h">> }
LocPaths ==
    { <<>>, <<"/">>, <<"/", "K">>, <<"/", "K", "/", "f">>, <<"/", "K", "/">>,
      <<"/", "/", "K">> }
LocTails == { <<>>, <<"?", "q">>, <<"#", "g">> }
LocHelpers == {"file", "folder"}

WriteUrl(scheme, auth, host, path, tail) ==
    (IF scheme = <<>> THEN <<>> ELSE scheme \o <<":">>)
    \o (IF auth THEN <<"/", "/">> \o host ELSE <<>>)
    \o path \o tail

InitLocation ==
    /\ InitJobs
    /\ interp = NoInterp
    /\ probe \in { l \in { [op |-> "location", helper |-> h,
                             scheme |-> s, auth |-> a, host |-> ho, path |-> p,
                             url |-> WriteUrl(s, a, ho, p, t),
                             pc |-> "start", bucket |-> <<>>, key |-> <<>>,
                             dirs |-> {}, asked |-> {}, result |-> "pending"] :
                            h \in LocHelpers, s \in LocSchemes, a \in BOOLEAN,
                            ho \in LocHosts, p \in LocPaths, t \in LocTails } :
                   l.auth \/ l.host = <<>> }

\* urlparse and the two checks on its result
LocationParse ==
    /\ probe.pc = "start"
    /\ LET l == ParseLocation(probe.url)
       IN  probe' = IF l.ok
                    THEN [probe EXCEPT !.bucket = l.bucket, !.key = l.key,
                                       !.pc = "makedirs"]
                    ELSE [probe EXCEPT !.pc = "done", !.result = None]
    /\ UNCHANGED <<jobVars, interp>>

\* os.makedirs of /tmp/<uuid>
LocationMakedirs ==
    /\ probe.pc = "makedirs"
    /\ probe' = [probe EXCEPT !.dirs = UpTo(LocalFolder), !.pc = "fetch"]
    /\ UNCHANGED <<jobVars, interp>>

\* the store is asked for the object, or for the listing below the prefix
LocationFetch(ok) ==
    /\ probe.pc = "fetch"
    /\ LET k == IF probe.helper = "folder" THEN ListPrefix(probe.key) ELSE probe.key
       IN  probe' = [probe EXCEPT
                       !.asked = {[bucket |-> probe.bucket, key |-> k]},
                       !.pc = "done",
                       !.result = IF ok THEN "local_path" ELSE None]
    /\ UNCHANGED <<jobVars, interp>>

NextLocation ==
    \/ LocationParse
    \/ LocationMakedirs
    \/ \E ok \in BOOLEAN : LocationFetch(ok)

SpecLocation == InitLocation /\ [][NextLocation]_vars

\* ---------------------------------------------------------------------------
\* run_subprocess_and_stream_output_async on its own: the child, its pipe
\* and the lines the generator yields.
MaxOutput == 2

InitSupervisor ==
    /\ InitJobs
    /\ interp = NoInterp
    /\ probe = [op |-> "supervise", pc |-> "readline", child |-> "running",
                exitcode |-> 0, pipe |-> <<>>, wrote |-> <<>>, yielded |-> <<>>]

\* the child writes a line
SupervisedWrite(line) ==
    /\ probe.op = "supervise"
    /\ probe.child = "running"
    /\ Len(probe.wrote) < MaxOutput
    /\ probe' = [probe EXCEPT !.pipe = Append(@, line), !.wrote = Append(@, line)]
    /\ UNCHANGED <<jobVars, interp>>

\* the child exits
SupervisedExit(code) ==
    /\ probe.op = "supervise"
    /\ probe.child = "running"
    /\ probe' = [probe EXCEPT !.child = "exited", !.exitcode = code]
    /\ UNCHANGED <<jobVars, interp>>

\* line = await process.stdout.readline(); yield line.decode('utf-8'):
\* bytes that are not UTF-8 make decode raise out of the generator
SupervisorReadLine ==
    /\ probe.op = "supervise"
    /\ probe.pc = "readline"
    /\ probe.pipe # <<>>
    /\ probe' = IF Decodable(Head(probe.pipe))
                THEN [probe EXCEPT !.pipe = Tail(@),
                                   !.yielded = Append(@, Head(probe.pipe))]
                ELSE [probe EXCEPT !.pipe = Tail(@), !.pc = "raised"]
    /\ UNCHANGED <<jobVars, interp>>

\* if not line: break
SupervisorEOF ==
    /\ probe.op = "supervise"
    /\ probe.pc = "readline"
    /\ probe.pipe = <<>>
    /\ probe.child = "exited"
    /\ probe' = [probe EXCEPT !.pc = "wait"]
    /\ UNCHANGED <<jobVars, interp>>

\* return_code = await process.wait(); yield the line that reports it
SupervisorWait ==
    /\ probe.op = "supervise"
    /\ probe.pc = "wait"
    /\ probe' = [probe EXCEPT !.yielded = Append(@, SentinelLine(probe.exitcode)),
                              !.pc = "end"]
    /\ UNCHANGED <<jobVars, interp>>

NextSupervisor ==
    \/ \E line \in ChildLines : SupervisedWrite(line)
    \/ \E code \in ExitCodes : SupervisedExit(code)
    \/ SupervisorReadLine
    \/ SupervisorEOF
    \/ SupervisorWait

SpecSupervisor == InitSupervisor /\ [][NextSupervisor]_vars

(***************************************************************************)
(* Properties.                                                             *)
(***************************************************************************)
\* positions between a successful acquire and the release
InFlightPcs ==
    {"admitted", "dl1", "dl2", "build", "reading", "wait", "check", "upload",
     "finally", "release"}

\* job j was admitted and has not released the gate
Holding(j) ==
    \/ pc[j] \in InFlightPcs
    \/ pc[j] = "responded" /\ exc[j] = "Removal"

\* local paths made on behalf of job j
PathsOf(j) == { p \in fs : p.job = j }
WorkspacePathsOf(j) == { p \in fs : p.root = "ws" /\ p.job = j }

\* failures of an admitted job that `except Exception` answers
HandledFailures ==
    {"DownloadVideo", "DownloadRefer", "DownloadFolder", "Script", "MissingOutput",
     "Unexpected"}

\* C1: at every instant at most one request, of either endpoint, is between
\* a successful acquire and its release, and the lock is then locked.
C1_AtMostOneInFlight ==
    /\ Cardinality({ j \in Jobs : Holding(j) }) <= 1
    /\ (\E j \in Jobs : Holding(j)) => locked

\* C1 witness: a /preprocess and a /generate request overlap, one past the
\* gate and the other waiting for it.
C1_Witness ==
    \E j, k \in Jobs :
        /\ pc[j] \in InFlightPcs
        /\ pc[k] = "waiting"
        /\ kind[j] # kind[k]

\* C2: a waiter whose timeout is due while its future is still pending (the
\* holder has not released) can only be cancelled; a cancelled waiter only
\* ends answered 429 as Busy; and a Busy request never had a workspace, a
\* download, a child process or an upload.
C2_TimedOutWaiterIsBusy ==
    [][\A j \in Jobs :
         /\ (pc[j] = "waiting" /\ waited[j] = LOCK_TIMEOUT /\ fut[j] = "pending"
               /\ pc'[j] # pc[j])
            => pc'[j] = "cancelled"
         /\ (pc[j] = "cancelled" /\ pc'[j] # pc[j])
            => (pc'[j] = "responded" /\ exc'[j] = "Busy" /\ status'[j] = 429)
         /\ exc'[j] = "Busy"
            => /\ temp_dir'[j] = NoDir
               /\ { p \in fs' : p.job = j } = {}
               /\ child'[j] = "none"
               /\ DOMAIN upres'[j] = {}
               /\ uploaded_files'[j] = <<>>
      ]_vars

\* C2 witness: a request has been answered Busy while the job that held
\* the gate throughout is still running.
C2_Witness ==
    \E j, k \in Jobs :
        /\ pc[j] = "responded"
        /\ exc[j] = "Busy"
        /\ pc[k] \in InFlightPcs

\* C3 (as claimed): once an admitted job has been answered, whatever step
\* failed, the gate is free unless another job has taken it.
C3_GateFreeAfterCleanup ==
    \A j \in Jobs :
        (pc[j] = "responded" /\ exc[j] # "Busy")
        => (~locked \/ \E k \in Jobs \ {j} : pc[k] \in InFlightPcs)

\* C4: a job's workspace directory exists from mkdtemp until the finally
\* block, and after the answer of a job that completed, or failed by a
\* download, script, missing-output or unexpected failure, nothing of the
\* workspace is left.
C4_WorkspaceBracketsJob ==
    \A j \in Jobs :
        /\ (pc[j] \in InFlightPcs \ {"release"} /\ temp_dir[j] # NoDir)
           => temp_dir[j] \in fs
        /\ (pc[j] = "responded" /\ exc[j] \in HandledFailures \cup {None})
           => WorkspacePathsOf(j) = {}

\* C4 witness: one job completed and another failed in its script, both
\* after their workspace had been created.
C4_Witness ==
    \E j, k \in Jobs :
        /\ pc[j] = "responded" /\ exc[j] = None /\ temp_dir[j] # NoDir
        /\ pc[k] = "responded" /\ exc[k] = "Script" /\ temp_dir[k] # NoDir

\* C5 (as claimed): after the answer of a job whose workspace removal did
\* not fail, no local path made on its behalf is left, download directories
\* included.
C5_NoLocalPathLeft ==
    \A j \in Jobs :
        (pc[j] = "responded" /\ exc[j] # "Removal") => PathsOf(j) = {}

\* C6: a request is answered 429 exactly when its acquire timed out, 200
\* exactly when its handler returned, and 500 for every failure of an
\* admitted job, with the failure's message as detail for a download,
\* script, missing-output or unexpected failure.
C6_StatusByOutcome ==
    \A j \in Jobs :
        pc[j] = "responded"
        => /\ status[j] = 429 <=> exc[j] = "Busy"
           /\ status[j] = 200 <=> exc[j] = None
           /\ exc[j] \in HandledFailures \cup {"Removal"} => status[j] = 500
           /\ exc[j] \in HandledFailures => detail[j] = exc[j]

\* C6 witness: one request was answered 429 and another, admitted, was
\* answered 500 for a missing output.
C6_Witness ==
    \E j, k \in Jobs :
        /\ status[j] = 429
        /\ status[k] = 500 /\ exc[k] = "MissingOutput"

\* C7: uploading starts, and objects and manifest entries of a job exist,
\* only when its child has exited with code 0 and 0 was interpreted; a job
\* whose child exited non-zero leaves the return-code check only as
\* Failed(Script), which is answered 500 with an empty manifest.
C7_NonZeroExitFailsBeforeUpload ==
    /\ [](\A j \in Jobs :
            /\ (\/ pc[j] = "upload"
                \/ DOMAIN upres[j] # {}
                \/ uploaded_files[j] # <<>>
                \/ \E key \in remote : key.prefix[Len(key.prefix)] = Uid(j))
               => (child[j] = "exited" /\ exitcode[j] = 0 /\ return_code[j] = 0)
            /\ (pc[j] = "responded" /\ exc[j] = "Script")
               => (status[j] = 500 /\ uploaded_files[j] = <<>>))
    /\ [][\A j \in Jobs :
            (pc[j] = "check" /\ exitcode[j] # 0 /\ pc'[j] # pc[j])
            => (pc'[j] = "finally" /\ exc'[j] = "Script")
         ]_vars

\* C7 witness: a job whose child wrote a line and was then killed (exit
\* code -9) has been answered as a script failure.
C7_Witness ==
    \E j \in Jobs :
        /\ pc[j] = "responded"
        /\ exc[j] = "Script"
        /\ child[j] = "exited"
        /\ exitcode[j] = -9
        /\ written[j] > 0

\* a line the supervisor itself yields last:
\* "Process completed with return code: <N>\n"
ValidSentinel(line) == \E n \in -99..99 : line = SentinelLine(n)
EndsWithSentinel(ls) == ls # <<>> /\ ValidSentinel(ls[Len(ls)])

C9_MissingOutputFails ==
    /\ [][\A j \in Jobs :
            (pc[j] = "upload" /\ kind[j] = "generate" /\ OutputFile(j) \notin fs
               /\ pc'[j] # pc[j])
            => /\ pc'[j] = "finally"
               /\ exc'[j] = "MissingOutput"
               /\ uploaded_files'[j] = <<>>
               /\ remote' = remote
         ]_vars
    /\ [](\A j \in Jobs :
            (pc[j] = "responded" /\ exc[j] = "MissingOutput")
            => (status[j] = 500 /\ uploaded_files[j] = <<>> /\ exitcode[j] = 0))

\* C9 witness: a Generate job whose child exited 0 without writing the
\* output file has been answered.
C9_Witness ==
    \E j \in Jobs :
        /\ kind[j] = "generate"
        /\ pc[j] = "responded"
        /\ child[j] = "exited"
        /\ exitcode[j] = 0
        /\ exc[j] = "MissingOutput"

\* the manifest of job j has exactly one entry for each file whose upload
\* and URL minting both succeeded, pointing to the key it was uploaded to,
\* and no other entry
ManifestMatches(j) ==
    LET okNames == { n \in DOMAIN upres[j] : upres[j][n] = "ok" }
    IN  /\ Len(uploaded_files[j]) = Cardinality(okNames)
        /\ \A n \in okNames :
              \E i \in 1..Len(uploaded_files[j]) :
                  /\ uploaded_files[j][i].file.rel = RelPath(n)
                  /\ uploaded_files[j][i].url # <<>>
                  /\ uploaded_files[j][i].url[1] \in remote

\* C10: in a Preprocess job a failed upload or URL minting does not abort:
\* the upload loop is left only by returning, with every file found
\* attempted; the manifest always has exactly one entry per file whose
\* upload and minting succeeded and none for the others; and the returned
\* job is answered 200 unless the workspace removal fails.
C10_UploadFailureNotFatal ==
    /\ [][\A j \in Jobs :
            (pc[j] = "upload" /\ kind[j] = "preprocess" /\ pc'[j] # pc[j])
            => /\ pc'[j] = "finally"
               /\ exc'[j] = None
               /\ WalkNames(j) \subseteq DOMAIN upres[j]
         ]_vars
    /\ [](\A j \in Jobs :
            /\ kind[j] = "preprocess" => ManifestMatches(j)
            /\ (kind[j] = "preprocess" /\ pc[j] = "responded" /\ DOMAIN upres[j] # {})
               => (exc[j] \in {None, "Removal"} /\ (exc[j] = None => status[j] = 200)))

\* C10 witness: a Preprocess job was answered 200 after the upload of its
\* first file failed and that of its second file succeeded: the manifest
\* has that one entry.
C10_Witness ==
    \E j \in Jobs :
        /\ kind[j] = "preprocess"
        /\ pc[j] = "responded"
        /\ status[j] = 200
        /\ DOMAIN upres[j] = OutNames
        /\ upres[j][<<"", "a">>] = "upload_failed"
        /\ upres[j][<<"sub", "a">>] = "ok"
        /\ Len(uploaded_files[j]) = 1

\* the field combinations the request contracts allow
PreprocessCombinationOk(r) ==
    /\ ~(r.replace_flag = "true" /\ r.use_flux = "true")
    /\ r.replace_flag = "true"
       => r.iterations # <<>> /\ r.k # <<>> /\ r.w_len # <<>> /\ r.h_len # <<>>
    /\ r.use_flux = "true" => r.retarget_flag = "true"
GenerateCombinationOk(r) ==
    /\ r.replace_flag = "true" => r.use_relighting_lora = "true"
    /\ r.nproc_per_node > 1
       => r.dit_fsdp = "true" /\ r.t5_fsdp = "true" /\ r.ulysses_size # <<>>
CombinationOk(k, r) ==
    IF k = "preprocess" THEN PreprocessCombinationOk(r) ELSE GenerateCombinationOk(r)

\* C13: the step in which a request with an invalid field combination
\* arrives answers it 422 and changes nothing else: the gate, the local
\* paths, the object store, the download log and every child process are as
\* before, and so is every other job.
C13_InvalidRequestTouchesNothing ==
    [][\A j \in Jobs :
          (pc[j] = "idle" /\ pc'[j] # "idle" /\ ~CombinationOk(kind'[j], req'[j]))
          => /\ pc'[j] = "responded"
             /\ status'[j] = 422
             /\ UNCHANGED <<gateVars, fs, temp_dir, dlres, procVars, storeVars>>
             /\ \A i \in Jobs \ {j} :
                   UNCHANGED <<pc[i], exc[i], status[i], return_code[i]>>]_vars

\* C13 witness: a request was rejected for its field combination while
\* another job, holding the gate, has its child running.
C13_Witness ==
    \E j, i \in Jobs :
        /\ pc[j] = "responded" /\ exc[j] = "Validation" /\ status[j] = 422
        /\ ~CombinationOk(kind[j], req[j])
        /\ pc[i] = "reading" /\ child[i] = "running" /\ locked

\* a download helper rejected one of the job's locations
LocationRejected(j) == \E w \in DOMAIN dlres[j] : dlres[j][w] = "invalid"

\* C14 (as claimed): a job one of whose locations was rejected as malformed
\* has, once answered (its workspace removal not having failed), left no
\* local file or directory behind, whichever location it was.
C14_MalformedLocationNoSideEffects ==
    \A j \in Jobs :
        (pc[j] = "responded" /\ exc[j] # "Removal" /\ LocationRejected(j))
        => PathsOf(j) = {}

\* a download helper of the job returned None
DownloadFailed(j) == \E w \in DOMAIN dlres[j] : dlres[j][w] # "ok"

\* C15: once a download of a job has failed (location rejected, listing or
\* fetch failed, for a folder also after some objects were fetched) the job
\* is on its way out with a download failure, is answered 500, has no child
\* process and has uploaded nothing.
C15_DownloadFailureFailsJob ==
    \A j \in Jobs :
        DownloadFailed(j)
        => /\ pc[j] \in {"finally", "release", "responded"}
           /\ exc[j] \in {"DownloadVideo", "DownloadRefer", "DownloadFolder", "Removal"}
           /\ pc[j] = "responded" => status[j] = 500
           /\ child[j] = "none"
           /\ DOMAIN upres[j] = {} /\ uploaded_files[j] = <<>>
           /\ \A key \in remote : key.prefix[Len(key.prefix)] # Uid(j)

\* C15 witness: a Preprocess job whose reference image failed to download
\* after its video had been fetched, and a Generate job of whose folder only
\* some objects were fetched, have both been answered 500.
C15_Witness ==
    \E j, i \in Jobs :
        /\ kind[j] = "preprocess" /\ pc[j] = "responded" /\ status[j] = 500
        /\ "refer" \in DOMAIN dlres[j] /\ dlres[j]["refer"] = "failed"
        /\ dlres[j]["video"] = "ok"
        /\ kind[i] = "generate" /\ pc[i] = "responded" /\ status[i] = 500
        /\ "src_root" \in DOMAIN dlres[i] /\ dlres[i]["src_root"] = "partial"

\* C11: upload_file_and_get_presigned_url gets past the upload, and returns
\* a URL, only for a file whose upload was attempted and reported success:
\* the URL is the one of the key the call has written, and there is none
\* when the upload failed, raised or was not reached.
C11_UrlOnlyForConfirmedUpload ==
    probe.op = "upload"
    => /\ (probe.u.pc \in {"remove", "mint"} \/ probe.u.url # <<>>)
          => /\ probe.u.key \in probe.u.remote
             /\ probe.u.outcome \notin {"upload_failed", "upload_raised"}
       /\ probe.u.url # <<>> => probe.u.url = <<probe.u.key>>
       /\ probe.u.key \notin probe.u.remote => probe.u.url = <<>>

\* C11 witness: the call has returned a URL for the key it uploaded.
C11_Witness ==
    /\ probe.op = "upload"
    /\ probe.u.pc = "done"
    /\ probe.u.url = <<probe.u.key>>
    /\ probe.u.key \in probe.u.remote

\* the key is <prefix without trailing slash>/<base name>, the prefix being
\* the given one or, if none is given, the configured one
KeyAsDerived(key, prefix, path) ==
    LET eff == IF prefix # <<>> THEN prefix ELSE ConfigPrefix
    IN  /\ key.name = path.rel[Len(path.rel)]
        /\ key.prefix = <<>> \/ key.prefix[Len(key.prefix)] # "/"
        /\ \E n \in 0..Len(eff) : eff = key.prefix \o [i \in 1..n |-> "/"]

\* the call has returned after its upload succeeded
UploadSucceeded == probe.op = "upload" /\ probe.u.pc = "done" /\ probe.u.key \in probe.u.remote

\* C12 (as claimed): whenever the upload succeeded, after the call no file is
\* at the local path and the call has returned a URL for the key
\* <prefix without trailing slash>/<base name>.
C12_UploadedMeansRemovedAndUrl ==
    UploadSucceeded
    => /\ probe.u.path \notin probe.u.fs
       /\ probe.u.url = <<probe.u.key>>
       /\ KeyAsDerived(probe.u.key, probe.prefix, probe.u.path)

\* C12 (amended): whenever the upload succeeded the key written is
\* <prefix without trailing slash>/<base name>; if os.remove and the URL
\* minting succeed too, no file is at the local path and the URL of that key
\* is returned; if the minting fails the file is gone and None is returned;
\* if os.remove fails the file stays and None is returned.
C12_UploadedThenRemovedThenUrl ==
    UploadSucceeded
    => /\ KeyAsDerived(probe.u.key, probe.prefix, probe.u.path)
       /\ probe.u.outcome \in {"ok", "url_failed", "remove_failed"}
       /\ probe.u.outcome = "ok"
          => probe.u.path \notin probe.u.fs /\ probe.u.url = <<probe.u.key>>
       /\ probe.u.outcome = "url_failed"
          => probe.u.path \notin probe.u.fs /\ probe.u.url = <<>>
       /\ probe.u.outcome = "remove_failed"
          => probe.u.path \in probe.u.fs /\ probe.u.url = <<>>

\* C12 witness: a file below a subdirectory was uploaded under a prefix
\* given with trailing slashes, removed, and its URL returned.
C12_Witness ==
    /\ UploadSucceeded
    /\ probe.prefix = <<"p", "/", "/">>
    /\ probe.u.path.rel = <<"process_results", "sub", "a">>
    /\ probe.u.key = [prefix |-> <<"p">>, name |-> "a"]
    /\ probe.u.url = <<probe.u.key>>
    /\ probe.u.path \notin probe.u.fs

\* a body of the given endpoint has passed validation and its handler has
\* built, or failed to build, the command
CommandBuilt(k) ==
    /\ probe.op = "request"
    /\ probe.kind = k
    /\ probe.verdict = None
    /\ probe.command # NoCommand

\* the argument vector C16 describes
ClaimedPreprocessArgv(r) ==
    Words(<<"python", "preprocess_data.py", "--ckpt_path", "ckpt_path",
            "--video_path", "local_video_path", "--refer_path", "local_refer_path",
            "--save_path", "local_save_path", "--resolution_area">>)
    \o <<FormatInt(r.resolution_area[1]), FormatInt(r.resolution_area[2])>>
    \o (IF r.replace_flag = "true"
        THEN <<<<"--iterations">>, FormatInt(r.iterations[1]), <<"--k">>, FormatInt(r.k[1]),
               <<"--w_len">>, FormatInt(r.w_len[1]), <<"--h_len">>, FormatInt(r.h_len[1]),
               <<"--replace_flag">>>>
        ELSE IF r.use_flux = "true"
        THEN <<<<"--retarget_flag">>, <<"--use_flux">>>>
        ELSE <<>>)

\* C16 (as claimed): for every Preprocess body that passes validation a
\* command is built, and it is the base arguments with the two
\* resolution-area values followed by the replace extension if replace_flag
\* is set, else by the use_flux extension if use_flux is set, never by both.
C16_PreprocessCommandAsClaimed ==
    CommandBuilt("preprocess")
    => /\ probe.command.error = None
       /\ probe.command.argv = ClaimedPreprocessArgv(probe.body)

\* s occurs in argv as a run of consecutive arguments
Contains(argv, s) ==
    \E i \in 1..Len(argv) : i + Len(s) - 1 <= Len(argv) /\ SubSeq(argv, i, i + Len(s) - 1) = s

\* the script and the base arguments of C17
ClaimedScriptAndBase(r) ==
    <<<<"generate.py">>, <<"--task">>, <<r.task>>, <<"--ckpt_dir">>, <<"ckpt_dir">>,
      <<"--src_root_path">>, <<"local_src_root_path">>, <<"--refert_num">>,
      FormatInt(r.refert_num), <<"--save_file">>, <<"local_output_file">>>>

\* the distributed-launch invocation of C17
ClaimedLaunch(r) ==
    <<<<"python">>, <<"-m">>, <<"torch.distributed.run">>, <<"--nnodes">>,
      FormatInt(r.nnodes), <<"--nproc_per_node">>, FormatInt(r.nproc_per_node)>>

\* C17: the command built for a Generate body that passed validation: with
\* nproc_per_node > 1 it begins with the launch invocation carrying nnodes
\* and nproc_per_node, goes on with the script and all base arguments and
\* contains --dit_fsdp --t5_fsdp --ulysses_size <ulysses_size>; with
\* nproc_per_node = 1 it begins with the interpreter and the script, has no
\* launch prefix and none of the three sharding flags, whatever the body's
\* dit_fsdp, t5_fsdp and ulysses_size.
C17_GenerateCommandByProcessCount ==
    CommandBuilt("generate")
    => LET r == probe.body
           argv == probe.command.argv
           base == ClaimedScriptAndBase(r)
       IN  /\ probe.command.error = None
           /\ r.nproc_per_node > 1
              => /\ SubSeq(argv, 1, 7) = ClaimedLaunch(r)
                 /\ SubSeq(argv, 8, 7 + Len(base)) = base
                 /\ Contains(argv, <<<<"--dit_fsdp">>, <<"--t5_fsdp">>, <<"--ulysses_size">>,
                                     FormatInt(r.ulysses_size[1])>>)
           /\ r.nproc_per_node = 1
              => /\ SubSeq(argv, 1, 1 + Len(base)) = <<<<"python">>>> \o base
                 /\ \A i \in 1..Len(argv) :
                       argv[i] \notin {<<"-m">>, <<"torch.distributed.run">>, <<"--nnodes">>,
                                       <<"--nproc_per_node">>, <<"--dit_fsdp">>,
                                       <<"--t5_fsdp">>, <<"--ulysses_size">>}

\* C17 witness: a single-process command was built for a body that sets
\* all three sharding fields, and a two-process one is what another body
\* would get.
C17_Witness ==
    /\ CommandBuilt("generate")
    /\ probe.body.nproc_per_node = 1
    /\ probe.body.dit_fsdp = "true"
    /\ probe.body.t5_fsdp = "true"
    /\ probe.body.ulysses_size = <<2>>
    /\ probe.body.replace_flag = "true"
    /\ Len(probe.command.argv) = 14

\* C18: a Preprocess body passes validation exactly if replace_flag and
\* use_flux are not both set, replace_flag set comes with iterations, k,
\* w_len and h_len all present, and use_flux set comes with retarget_flag set.
C18_PreprocessValidIff ==
    (probe.op = "request" /\ probe.kind = "preprocess" /\ probe.verdict # "pending")
    => (probe.verdict = None <=> PreprocessCombinationOk(probe.body))

\* C18 witness: a body with replace_flag and its four parameters passed,
\* retarget_flag being null.
C18_Witness ==
    /\ probe.op = "request" /\ probe.kind = "preprocess"
    /\ probe.verdict = None
    /\ probe.body.replace_flag = "true"
    /\ probe.body.retarget_flag = "null"
    /\ probe.body.h_len = <<32>>

\* C19: a Generate body passes validation exactly if replace_flag set comes
\* with use_relighting_lora set, and nproc_per_node > 1 comes with dit_fsdp
\* and t5_fsdp set and ulysses_size present.
C19_GenerateValidIff ==
    (probe.op = "request" /\ probe.kind = "generate" /\ probe.verdict # "pending")
    => (probe.verdict = None <=> GenerateCombinationOk(probe.body))

\* C19 witness: a two-process body with both sharding flags and
\* ulysses_size passed validation.
C19_Witness ==
    /\ probe.op = "request" /\ probe.kind = "generate"
    /\ probe.verdict = None
    /\ probe.body.nproc_per_node = 2
    /\ probe.body.replace_flag = "true"

\* the prefix p/ of C20, the non-marker objects the store holds under it and
\* the segments of a key's path relative to it
PrefixP == <<"p", "/">>
ObjectsUnderP == { k \in probe.store : StartsWith(k, PrefixP) /\ k[Len(k)] # "/" }
RelativeToP(k) == Split(SubSeq(k, Len(PrefixP) + 1, Len(k)))
\* the local directory holds exactly one file per object under p/, at the
\* object's relative path (read as a local path: repeated separators count
\* once)
MirrorsObjectsUnderP ==
    /\ probe.result = "local_folder_path"
    /\ probe.files = { LocalFolder \o Norm(<<>>, RelativeToP(k)) : k \in ObjectsUnderP }
    /\ Cardinality(probe.files) = Cardinality(ObjectsUnderP)
\* the relative paths form a tree: every segment is a name, and no object's
\* path is a directory on the path of another
FormsTree ==
    /\ \A k \in ObjectsUnderP :
          \A i \in 1..Len(RelativeToP(k)) :
             RelativeToP(k)[i] \notin { <<>>, <<".">>, <<"..">> }
    /\ \A k, m \in ObjectsUnderP :
          k # m => ~StartsWith(RelativeToP(m), RelativeToP(k))

\* C20 (as claimed): on any store the download returns a directory holding
\* exactly one file per non-marker object under p/, at its relative path,
\* and nothing for markers and for objects outside p/.
C20_FolderMirrorsPrefix ==
    (probe.op = "folder" /\ probe.pc = "done") => MirrorsObjectsUnderP

\* C20 (amended): the same, for stores whose objects under p/ have relative
\* paths that form a tree.
C20_FolderMirrorsTree ==
    (probe.op = "folder" /\ probe.pc = "done" /\ FormsTree) => MirrorsObjectsUnderP

\* C20 witness: a store with two objects under p/, one in a subdirectory,
\* the marker of that subdirectory and an object under pq/, was downloaded
\* from the prefix given without its slash.
C20_Witness ==
    /\ probe.op = "folder" /\ probe.pc = "done"
    /\ probe.given = <<"p">>
    /\ probe.store = { <<"p", "/", "a">>, <<"p", "/", "s", "/", "a">>,
                       <<"p", "/", "s", "/">>, <<"p", "q", "/", "a">> }
    /\ probe.result = "local_folder_path"
    /\ probe.files = { LocalFolder \o << <<"a">> >>, LocalFolder \o << <<"s">>, <<"a">> >> }

\* the bucket and the key a location written from its parts names: the
\* host (s3) or its first label (https), and the path after its slash
ClaimedBucket ==
    IF probe.scheme \in { <<"s3">>, <<"S3">> } THEN probe.host
    ELSE IF probe.host = <<>> \/ probe.host[1] = "." THEN <<>>
    ELSE <<probe.host[1]>>
ClaimedKey == IF probe.path = <<>> THEN <<>> ELSE Tail(probe.path)
\* the location is of one of the two accepted forms
AcceptedForm ==
    /\ probe.scheme \in { <<"s3">>, <<"S3">>, <<"https">> }
    /\ ClaimedBucket # <<>>
    /\ ClaimedKey # <<>>

C22_ReleaseThenDestroy ==
    [][\A j \in Jobs :
          (temp_dir[j] # NoDir /\ temp_dir[j] \in fs /\ temp_dir[j] \notin fs')
          => ~Holding(j)]_vars

\* C23: the return code the handler checks is the exit code of the child,
\* whatever the child wrote: the line yielded after process.wait() sets it,
\* also when a line of the child carrying the marker text had set it
\* before, and the job fails as a script error exactly when the child
\* exited non-zero.
C23_ActsOnRealExitCode ==
    /\ [][\A j \in Jobs :
            (pc[j] = "wait" /\ pc'[j] = "check") => return_code'[j] = exitcode[j]
         ]_vars
    /\ [](\A j \in Jobs : pc[j] = "check" => return_code[j] = exitcode[j])
    /\ [][\A j \in Jobs :
            (pc[j] = "check" /\ pc'[j] # "check")
            => (exc'[j] = "Script" <=> exitcode[j] # 0)
         ]_vars

\* C23 witness: the child exited 0 after writing a line that carries the
\* marker text with a suffix that is no number; the loop has read that line
\* and holds return_code 1 when the supervisor waits for the child.
C23_Witness ==
    \E j \in Jobs :
        /\ pc[j] = "wait"
        /\ child[j] = "exited" /\ exitcode[j] = 0
        /\ written[j] = 1
        /\ return_code[j] = 1

\* C24 (as claimed): what the supervisor has yielded is at any time the
\* lines of the child in the order written, and once the child has exited
\* and the generator is finished it is all of them followed by the one line
\* that reports the exit code.
C24_SupervisorSequence ==
    probe.op = "supervise"
    => /\ probe.pc # "end"
          => /\ Len(probe.yielded) <= Len(probe.wrote)
             /\ probe.yielded = SubSeq(probe.wrote, 1, Len(probe.yielded))
       /\ (probe.child = "exited" /\ probe.pc \in {"end", "raised"})
          => probe.yielded = Append(probe.wrote, SentinelLine(probe.exitcode))

\* C25 (as claimed): under a fair event loop, with children that terminate
\* and store calls that return, every admitted job is eventually answered
\* and a held gate is eventually released.
C25_AdmittedJobsFinish ==
    /\ \A j \in Jobs : (pc[j] \in InFlightPcs) ~> (pc[j] = "responded")
    /\ locked ~> ~locked

\* C26 (as claimed): a job that has been answered has called release once
\* for each acquire that admitted it, a job never releases more often than
\* it acquired, and a release is made only by the job that holds the gate.
C26_ReleaseOncePerAcquire ==
    /\ [](\A j \in Jobs :
            /\ releases[j] <= acquires[j]
            /\ pc[j] = "responded" => releases[j] = acquires[j])
    /\ [][\A j \in Jobs :
            releases'[j] # releases[j]
            => /\ locked /\ Holding(j)
               /\ \A k \in Jobs \ {j} : ~Holding(k)
         ]_vars

\* the pipeline state of job j: 0 Idle, 1 Admitted, 2 InputsStaged,
\* 3 Running, 4 OutputsCollected, 5 the cleanup that leads to the answer,
\* 6 answered (Done when answered 200, Failed otherwise)
Stage(j) ==
    IF pc[j] \in {"idle", "waiting", "cancelled"} THEN 0
    ELSE IF pc[j] \in {"admitted", "dl1", "dl2"} THEN 1
    ELSE IF pc[j] = "build" THEN 2
    ELSE IF pc[j] \in {"reading", "wait", "check"} THEN 3
    ELSE IF pc[j] = "upload" THEN 4
    ELSE IF pc[j] \in {"finally", "release"} THEN 5
    ELSE 6
\* the inputs of job j
InputsOf(j) == IF kind[j] = "generate" THEN {"src_root"} ELSE {"video", "refer"}

\* C27: a job goes through Idle, Admitted, InputsStaged, Running and
\* OutputsCollected one by one and in this order, leaves for Done only from
\* OutputsCollected and for Failed from any of them, and once answered it
\* stays as answered; no workspace exists while it is Idle, its process is
\* spawned only when every input has been downloaded, and nothing is
\* uploaded before the line sequence of its process has ended.
C27_PipelineOrder ==
    /\ [][\A j \in Jobs :
            LET a == Stage(j)
                b == Stage(j)'
            IN  /\ \/ b = a
                   \/ a < 4 /\ b = a + 1
                   \/ a = 4 /\ b = 5
                   \/ a <= 4 /\ b \in {5, 6} /\ exc'[j] # None
                   \/ a = 5 /\ b = 6
                /\ a = 6 => (status'[j] = status[j] /\ exc'[j] = exc[j])
                /\ (a = 5 /\ exc[j] # None) => exc'[j] # None
                /\ (b = 6 /\ status'[j] = 200) => (a \in {5, 6} /\ exc[j] = None)
         ]_vars
    /\ [](\A j \in Jobs :
            /\ Stage(j) = 0 => (temp_dir[j] = NoDir /\ WorkspacePathsOf(j) = {})
            /\ child[j] # "none"
               => \A w \in InputsOf(j) : w \in DOMAIN dlres[j] /\ dlres[j][w] = "ok"
            /\ (DOMAIN upres[j] # {} \/ uploaded_files[j] # <<>>)
               => (child[j] = "exited" /\ pipe[j] = <<>> /\ Stage(j) >= 4))

\* C27 witness: a Preprocess job went through every state and was answered
\* 200 with a manifest entry.
C27_Witness ==
    \E j \in Jobs :
        /\ kind[j] = "preprocess"
        /\ pc[j] = "responded" /\ status[j] = 200
        /\ dlres[j]["video"] = "ok" /\ dlres[j]["refer"] = "ok"
        /\ child[j] = "exited" /\ exitcode[j] = 0
        /\ uploaded_files[j] # <<>>

\* C28 (as claimed): as long as the child of a job has not terminated, the
\* job is in Running, reading its lines, and holds the gate, so that no
\* other request is admitted.
C28_HungChildHoldsGate ==
    \A j \in Jobs :
        child[j] = "running"
        => /\ pc[j] = "reading"
           /\ locked
           /\ \A k \in Jobs \ {j} : ~Holding(k)

\* C30 (as claimed): while the gate is free no child of any job is running,
\* and at most one child is running at any time.
C30_NoChildOutlivesGate ==
    /\ ~locked => \A j \in Jobs : child[j] # "running"
    /\ Cardinality({ j \in Jobs : child[j] = "running" }) <= 1

\* C29: upload_file_and_get_presigned_url removes the local file only once
\* the upload has written the key: a file that was there is gone only if
\* the key is in the store, and when the upload fails or raises the call
\* ends with the file still at its path, nothing written and no URL.
C29_FileKeptUnlessUploaded ==
    (probe.op = "upload" /\ probe.there)
    => /\ probe.u.path \notin probe.u.fs => probe.u.key \in probe.u.remote
       /\ (probe.u.pc = "done" /\ probe.u.outcome \in {"upload_failed", "upload_raised"})
          => /\ probe.u.fs = {probe.u.path}
             /\ probe.u.remote = {}
             /\ probe.u.url = <<>>

\* C29 witness: the upload of a file that was there raised and the call has
\* returned None, the file still being there.
C29_Witness ==
    /\ probe.op = "upload" /\ probe.there
    /\ probe.u.pc = "done"
    /\ probe.u.outcome = "upload_raised"
    /\ probe.u.path \in probe.u.fs
    /\ probe.u.url = <<>>

\* C31 (as claimed): in a Preprocess job the manifest entries of distinct
\* files have URLs of distinct keys, and the path an entry gives below
\* preprocess_result/<id> is the one of the key its URL points to below the
\* upload prefix, also for files in subdirectories.
C31_DistinctFilesDistinctKeys ==
    \A j \in Jobs :
        kind[j] = "preprocess"
        => /\ \A a, b \in 1..Len(uploaded_files[j]) :
                 a # b => uploaded_files[j][a].url # uploaded_files[j][b].url
           /\ \A a \in 1..Len(uploaded_files[j]) :
                 LET e == uploaded_files[j][a]
                 IN  /\ e.url[1].prefix = UploadPrefix(j)
                     /\ e.file.rel = <<e.url[1].name>>

\* C32: a request whose acquire timed out is answered without a change of
\* the lock; once answered its future is no longer queued and it never
\* acquires, also when the holder released just before its timeout fired;
\* and when no job holds the gate and no request waits any more, the lock
\* is free with no waiter queued, so the next request acquires at once.
C32_TimedOutRequestLeavesGate ==
    /\ [][\A j \in Jobs :
            (pc[j] = "cancelled" /\ pc'[j] # "cancelled")
            => /\ pc'[j] = "responded" /\ exc'[j] = "Busy"
               /\ locked' = locked
               /\ acquires' = acquires /\ releases' = releases
         ]_vars
    /\ [](\A j \in Jobs :
            (pc[j] = "responded" /\ exc[j] = "Busy")
            => /\ fut[j] = "none"
               /\ \A i \in 1..Len(waiters) : waiters[i] # j
               /\ acquires[j] = 0 /\ releases[j] = 0)
    /\ []((\A j \in Jobs : ~Holding(j) /\ pc[j] \notin {"waiting", "cancelled"})
            => (~locked /\ waiters = <<>> /\ FastPath(locked, waiters, fut)))

\* C32 witness: a request was answered Busy, the holder has released since
\* and the lock is free.
C32_Witness ==
    \E j, k \in Jobs :
        /\ pc[j] = "responded" /\ exc[j] = "Busy"
        /\ pc[k] = "responded" /\ releases[k] = 1
        /\ ~locked /\ waiters = <<>>

\* C33: a Generate job at its upload step whose output file exists leaves
\* that step only by returning, whatever the upload and the URL minting
\* did; its manifest has one entry if both succeeded and none otherwise,
\* never more than one; and the returned job is answered 200 with the
\* success message unless the workspace removal fails.
C33_GenerateUploadFailureNotFatal ==
    /\ [][\A j \in Jobs :
            (pc[j] = "upload" /\ kind[j] = "generate" /\ OutputFile(j) \in fs
               /\ pc'[j] # pc[j])
            => /\ pc'[j] = "finally"
               /\ exc'[j] = None
               /\ DOMAIN upres'[j] # {}
         ]_vars
    /\ [](\A j \in Jobs :
            kind[j] = "generate"
            => /\ Len(uploaded_files[j]) <= 1
               /\ \A n \in DOMAIN upres[j] :
                     /\ upres[j][n] = "ok" => Len(uploaded_files[j]) = 1
                     /\ upres[j][n] # "ok" => uploaded_files[j] = <<>>
               /\ (pc[j] = "responded" /\ DOMAIN upres[j] # {} /\ exc[j] # "Removal")
                  => (status[j] = 200 /\ detail[j] = Answer(None).detail))

\* C33 witness: a Generate job whose child exited 0 and whose upload failed
\* was answered 200 with an empty manifest.
C33_Witness ==
    \E j \in Jobs :
        /\ kind[j] = "generate"
        /\ pc[j] = "responded" /\ status[j] = 200
        /\ exitcode[j] = 0
        /\ \E n \in DOMAIN upres[j] : upres[j][n] = "upload_failed"
        /\ uploaded_files[j] = <<>>

\* C34: the command built for a valid Preprocess body contains
\* --retarget_flag exactly if use_flux is set: a body with retarget_flag
\* set and use_flux not set, with or without replace_flag, gets a command
\* without it.
C34_RetargetFlagOnlyWithFlux ==
    (CommandBuilt("preprocess") /\ probe.command.error = None)
    => LET has == \E i \in 1..Len(probe.command.argv) :
                     probe.command.argv[i] = <<"--retarget_flag">>
       IN  /\ has <=> probe.body.use_flux = "true"
           /\ (probe.body.retarget_flag = "true" /\ probe.body.use_flux # "true") => ~has

\* C34 witness: a command was built for a valid body with retarget_flag and
\* replace_flag set and use_flux not set, and --retarget_flag is not in it.
C34_Witness ==
    /\ CommandBuilt("preprocess")
    /\ probe.command.error = None
    /\ probe.body.retarget_flag = "true"
    /\ probe.body.use_flux = "false"
    /\ probe.body.replace_flag = "true"
    /\ \E i \in 1..Len(probe.command.argv) : probe.command.argv[i] = <<"--replace_flag">>
    /\ \A i \in 1..Len(probe.command.argv) : probe.command.argv[i] # <<"--retarget_flag">>
====
